---- MODULE Spec2Model ----
(***************************************************************************)
(* Model of the mutation / mint workflow of the Mutant Warplet client.     *)
(*                                                                         *)
(* MutationComponent (src/src/components/MutationComponent.tsx) is a React *)
(* function component.  Its state cells are the VARIABLES status, result,  *)
(* error, showSuccessModal, mintSuccessData and isMinting.  Every handler  *)
(* is an async function: the code between two awaits runs to completion,   *)
(* so every action below is one such synchronous segment (a click handler  *)
(* up to its first await, or the continuation that runs when an awaited    *)
(* call resolves or rejects).  React commits the state written by a        *)
(* segment and re-renders before the next event is delivered, so the       *)
(* values a handler closes over are the state at the time it is invoked;   *)
(* what an async handler read before an await is kept in the record of the *)
(* run (gens) or of the chain (chains) it belongs to.                      *)
(*                                                                         *)
(* mintMutant (src/src/services/mintService.ts) and the publisher          *)
(* (src/src/services/ipfs.ts) are the steps of a mint chain.  The wallet,  *)
(* the storage provider, the generative service and the chain are the      *)
(* environment: every awaited call may resolve or reject.                  *)
(***************************************************************************)
EXTENDS Integers, Sequences, FiniteSets, TLC

\* ------------------------------------------------------------------ bounds
MaxRuns == 2        \* generation runs started in one behaviour
MaxLogs == 2        \* logs in one transaction receipt

\* ------------------------------------------------------- values and inputs
Null == <<>>
Some(x) == <<x>>

\* An image URL.  origin is the token whose picture the image derives from,
\* run = 0 is the picture of the source asset itself, run > 0 the data URL
\* produced by generation run number run.
EmptyUrl == [origin |-> 0, run |-> 0]
AssetUrl(t) == [origin |-> t, run |-> 0]

TokenIds == {1, 2, 3}
NoImageTokens == {3}
WarpletContract == "0x699727F9E01A822EFdcf7333073f0461e5914b4E"

\* The NFTData object the parent passes as the nftData prop.
NFTData(t) ==
  [tokenId |-> t,
   contractAddress |-> WarpletContract,
   name |-> t,
   image |-> IF t \in NoImageTokens THEN EmptyUrl ELSE AssetUrl(t)]

Assets == {NFTData(t) : t \in TokenIds}

ChainIds == {"base", "mainnet"}
BaseChain == "base"

NoError == "null"
ErrGenerate == "Unable to generate mutation. Please try again later."
ErrRemutate == "Unable to generate new mutation. Please try again later."

DefaultFeeEth == "0.00037"

VARIABLES
  mounted,           \* the MutationComponent instance is still mounted
  nftData,           \* the nftData prop of the mounted instance
  status, result, error, showSuccessModal, mintSuccessData, isMinting,
  gens,              \* generateMutatedImage calls in flight
  nextRun,           \* number of the next generation run
  restored,          \* history: the last generation step was the restore
                     \* branch of handleRemutate's catch block
  chains,            \* handleProceedToMint invocations in flight
  walletChain,       \* the network the wallet is connected to
  app,               \* App: its state cells and the loadWarplet run
  genCall,           \* the generateMutatedImage call that is followed
                     \* step by step (Null: calls are not followed)
  pinataJwt,         \* import.meta.env.VITE_PINATA_JWT (Null: not set)
  upload,            \* an upload call of the publisher, followed on its own
  contract,          \* the storage of the MutantWarplets contract
  mutationFee,       \* the data of useReadContract(mutationFee)
  admin,             \* App with the AdminPanel: wallet and owner lookup
  gemini             \* a GeminiMutationService instance and its calls

compState == <<status, result, error, showSuccessModal, mintSuccessData, isMinting>>
compVars == <<mounted, nftData, status, result, error, showSuccessModal,
              mintSuccessData, isMinting>>
genVars == <<gens, nextRun, restored>>
mintVars == <<chains, walletChain>>
mutationVars == <<mounted, nftData, status, result, error, showSuccessModal,
                  mintSuccessData, isMinting, gens, nextRun, restored, chains,
                  walletChain>>
envVars == <<app, genCall, pinataJwt, upload, contract, mutationFee, admin,
            gemini>>
exceptApp == <<genCall, pinataJwt, upload, contract, mutationFee, admin, gemini>>
exceptGenCall == <<app, pinataJwt, upload, contract, mutationFee, admin, gemini>>

\* The parts of the program a specification does not follow.
NotFollowed(v) == v = Null
vars == <<mounted, nftData, status, result, error, showSuccessModal,
          mintSuccessData, isMinting, gens, nextRun, restored, chains,
          walletChain, app, genCall, pinataJwt, upload, contract, mutationFee,
          admin, gemini>>

\* A mint chain can still write the state of the component it belongs to:
\* React drops state updates addressed to an unmounted instance.
Live(c) == mounted

\* --------------------------------------------------------- generation runs
\* The data URL generateMutatedImage returns for run g.
GenImage(g) == [origin |-> g.src.origin, run |-> g.id]

\* A new in-flight generateMutatedImage call.
NewRun(k, source, previous, a) ==
  [id |-> nextRun, kind |-> k, cancelled |-> FALSE,
   src |-> source, prev |-> previous, asset |-> a.tokenId]

\* The cleanup of the load effect: cancelled = true in the closure of the
\* run that effect started.
Cleanup(S) ==
  {IF g.kind = "load" THEN [g EXCEPT !.cancelled = TRUE] ELSE g : g \in S}

\* The state after the component mounted with nftData = a: the state cells
\* hold their initial values and the load effect has run once.
Mounted(a) ==
  /\ mounted = TRUE
  /\ nftData = a
  /\ result = Null
  /\ error = NoError
  /\ showSuccessModal = FALSE
  /\ mintSuccessData = Null
  /\ isMinting = FALSE
  /\ IF a.image = EmptyUrl
       THEN /\ status = "pending"
            /\ gens = {}
            /\ nextRun = 1
       ELSE /\ status = "generating"
            /\ gens = {[id |-> 1, kind |-> "load", cancelled |-> FALSE,
                        src |-> a.image, prev |-> Null, asset |-> a.tokenId]}
            /\ nextRun = 2

Init ==
  /\ \E a \in Assets : Mounted(a)
  /\ restored = FALSE
  /\ chains = {}
  /\ walletChain \in ChainIds
  /\ app = Null
  /\ genCall = Null
  /\ pinataJwt \in {Null, Some("jwt")}
  /\ NotFollowed(upload) /\ NotFollowed(contract) /\ NotFollowed(mutationFee)
  /\ NotFollowed(admin) /\ NotFollowed(gemini)

\* The parent stops rendering the component: the effect cleanup runs and the
\* state cells are gone.  React drops every state update a continuation of
\* the unmounted instance makes, so its generation runs can have no effect
\* any more and leave the model here; its mint chain goes on uploading and
\* submitting and stays.
Unmount ==
  /\ mounted
  /\ mounted' = FALSE
  /\ gens' = {}
  /\ restored' = FALSE
  /\ status' = "pending"
  /\ result' = Null
  /\ error' = NoError
  /\ showSuccessModal' = FALSE
  /\ mintSuccessData' = Null
  /\ isMinting' = FALSE
  /\ UNCHANGED <<nftData, nextRun>>
  /\ UNCHANGED mintVars
  /\ UNCHANGED envVars

\* The parent passes another asset to the mounted component.  The load
\* effect depends on nftData?.tokenId only.
SelectAssetUpTo(a, runs) ==
  /\ mounted
  /\ a # nftData
  /\ nftData' = a
  /\ IF a.tokenId = nftData.tokenId
       THEN UNCHANGED <<status, error, gens, nextRun, restored>>
       ELSE IF a.image = EmptyUrl
         THEN /\ gens' = Cleanup(gens)
              /\ UNCHANGED <<status, error, nextRun, restored>>
         ELSE /\ nextRun <= runs
              /\ restored' = FALSE
              /\ status' = "generating"
              /\ error' = NoError
              /\ gens' = Cleanup(gens) \cup {NewRun("load", a.image, Null, a)}
              /\ nextRun' = nextRun + 1
  /\ UNCHANGED <<mounted, result, showSuccessModal, mintSuccessData, isMinting>>
  /\ UNCHANGED mintVars
  /\ UNCHANGED envVars

SelectAsset(a) == SelectAssetUpTo(a, MaxRuns)

\* generateMutatedImage resolves only when it was given an image URL.
CanResolve(g) == g.src # EmptyUrl

\* Continuation of generateMutation after the await, success.
LoadResolve(g) ==
  /\ g \in gens /\ g.kind = "load" /\ CanResolve(g)
  /\ gens' = gens \ {g}
  /\ restored' = FALSE
  /\ IF g.cancelled
       THEN UNCHANGED <<status, result>>
       ELSE /\ result' = Some(GenImage(g))
            /\ status' = "ready"
  /\ UNCHANGED <<mounted, nftData, error, showSuccessModal, mintSuccessData,
                 isMinting, nextRun>>
  /\ UNCHANGED mintVars
  /\ UNCHANGED envVars

\* Continuation of generateMutation after the await, failure.
LoadReject(g) ==
  /\ g \in gens /\ g.kind = "load"
  /\ gens' = gens \ {g}
  /\ restored' = FALSE
  /\ IF g.cancelled
       THEN UNCHANGED <<status, error>>
       ELSE /\ error' = ErrGenerate
            /\ status' = "error"
  /\ UNCHANGED <<mounted, nftData, result, showSuccessModal, mintSuccessData,
                 isMinting, nextRun>>
  /\ UNCHANGED mintVars
  /\ UNCHANGED envVars

\* ------------------------------------- generateMutatedImage, step by step
\* generateMutatedImage of src/src/services/imageGeneration.ts, the service
\* MutationComponent uses: the awaited fetch of the source image, the awaited
\* generateContentStream request, then one step per chunk of the response
\* stream.  The Gemini client is configured (VITE_GEMINI_API_KEY is set).
MaxChunks == 2      \* chunks consumed from one response stream

TextPart == [text |-> Some("text"), inlineData |-> Null]
ImagePart(data, mimeType) ==
  [text |-> Null, inlineData |-> Some([data |-> data, mimeType |-> mimeType])]

\* chunk.candidates[0].content.parts of the chunks a stream can yield.
PartLists ==
  {<<>>,
   <<TextPart>>,
   <<ImagePart("png bytes", "image/png")>>,
   <<ImagePart("jpeg bytes", "image/jpeg")>>,
   <<ImagePart("bytes", "")>>,
   <<TextPart, ImagePart("png bytes", "image/png")>>}

\* A chunk: parts = Null when candidates, content or parts is missing.
Chunks == {[parts |-> Null]} \cup {[parts |-> Some(l)] : l \in PartLists}

ErrNoImage == "No image data in Gemini response"
ErrUnavailable == "Gemini API not available or no image URL provided"
ErrTypeError == "TypeError: Cannot read properties of undefined"
ErrRequest == "request failed"

\* `data:${inlineData.mimeType};base64,${inlineData.data}`
DataUrl(mimeType, data) == <<"data:", mimeType, ";base64,", data>>

\* No call has been made.
NoCall ==
  [run |-> 0, pc |-> "none", requests |-> <<>>, consumed |-> <<>>,
   imageUrl |-> Null, err |-> "none"]

\* generateMutatedImage up to its first await, for generation run `run`.
GenerateMutatedImage(run, imageUrl) ==
  IF imageUrl # EmptyUrl
    THEN [run |-> run, pc |-> "fetch", requests |-> <<"fetch">>,
          consumed |-> <<>>, imageUrl |-> Null, err |-> "none"]
    ELSE [run |-> run, pc |-> "thrown", requests |-> <<>>,
          consumed |-> <<>>, imageUrl |-> Null, err |-> ErrUnavailable]

\* The call a handler makes, where calls are followed.
Follow(run, imageUrl) ==
  IF genCall = Null THEN Null ELSE GenerateMutatedImage(run, imageUrl)

\* The body of the for await loop for one chunk: skip it, return its image,
\* or throw where parts[0] is undefined.
ProcessChunk(call, chunk) ==
  LET c == [call EXCEPT !.consumed = Append(@, chunk)]
  IN IF chunk.parts = Null THEN c
     ELSE IF chunk.parts[1] = <<>>
       THEN [c EXCEPT !.pc = "thrown", !.err = ErrTypeError]
     ELSE LET inlineData == chunk.parts[1][1].inlineData
          IN IF /\ inlineData # Null
                /\ inlineData[1].data # ""
                /\ inlineData[1].mimeType # ""
               THEN [c EXCEPT !.pc = "returned",
                              !.imageUrl = Some(DataUrl(inlineData[1].mimeType,
                                                        inlineData[1].data))]
               ELSE c

\* A stream end that returns an empty image instead of throwing.
StreamEndReturnsEmpty(call) ==
  [call EXCEPT !.pc = "returned", !.imageUrl = Some(DataUrl("", ""))]

\* The statement after the loop: throw new Error("No image data ...").
StreamEnd(call) == [call EXCEPT !.pc = "thrown", !.err = ErrNoImage]

\* The Try Again button is rendered in the error view only.
RetryShown == mounted /\ status = "error"

HandleRetryUpTo(runs) ==
  /\ RetryShown
  /\ nextRun <= runs
  /\ status' = "generating"
  /\ error' = NoError
  /\ gens' = gens \cup {NewRun("retry", nftData.image, Null, nftData)}
  /\ genCall' = Follow(nextRun, nftData.image)
  /\ nextRun' = nextRun + 1
  /\ restored' = FALSE
  /\ UNCHANGED <<mounted, nftData, result, showSuccessModal, mintSuccessData,
                 isMinting>>
  /\ UNCHANGED mintVars
  /\ UNCHANGED exceptGenCall

HandleRetry == HandleRetryUpTo(MaxRuns)

RetryResolve(g) ==
  /\ g \in gens /\ g.kind = "retry" /\ CanResolve(g)
  /\ gens' = gens \ {g}
  /\ restored' = FALSE
  /\ result' = Some(GenImage(g))
  /\ status' = "ready"
  /\ UNCHANGED <<mounted, nftData, error, showSuccessModal, mintSuccessData,
                 isMinting, nextRun>>
  /\ UNCHANGED mintVars
  /\ UNCHANGED envVars

RetryReject(g) ==
  /\ g \in gens /\ g.kind = "retry"
  /\ gens' = gens \ {g}
  /\ restored' = FALSE
  /\ error' = ErrGenerate
  /\ status' = "error"
  /\ UNCHANGED <<mounted, nftData, result, showSuccessModal, mintSuccessData,
                 isMinting, nextRun>>
  /\ UNCHANGED mintVars
  /\ UNCHANGED envVars

\* The Re-mutate button is rendered when status is ready and no mint runs.
RemutateShown == mounted /\ status = "ready" /\ ~isMinting

\* previousResult?.mutatedImageUrl || nftData.image
SourceImage(previousResult, nft) ==
  IF previousResult # Null THEN previousResult[1] ELSE nft.image

HandleRemutateUpTo(runs) ==
  /\ RemutateShown
  /\ nextRun <= runs
  /\ status' = "generating"
  /\ error' = NoError
  /\ result' = Null
  /\ gens' = gens \cup
       {NewRun("remutate", SourceImage(result, nftData), result, nftData)}
  /\ genCall' = Follow(nextRun, SourceImage(result, nftData))
  /\ nextRun' = nextRun + 1
  /\ restored' = FALSE
  /\ UNCHANGED <<mounted, nftData, showSuccessModal, mintSuccessData, isMinting>>
  /\ UNCHANGED mintVars
  /\ UNCHANGED exceptGenCall

HandleRemutate == HandleRemutateUpTo(MaxRuns)

RemutateResolve(g) ==
  /\ g \in gens /\ g.kind = "remutate" /\ CanResolve(g)
  /\ gens' = gens \ {g}
  /\ restored' = FALSE
  /\ result' = Some(GenImage(g))
  /\ status' = "ready"
  /\ UNCHANGED <<mounted, nftData, error, showSuccessModal, mintSuccessData,
                 isMinting, nextRun>>
  /\ UNCHANGED mintVars
  /\ UNCHANGED envVars

\* handleRemutate's catch block without the restore branch.
RemutateCatchNoRestore(previousResult) ==
  [status |-> "error", result |-> result, error |-> ErrRemutate]

\* handleRemutate's catch block without the setError(null) of the restore
\* branch.
RemutateCatchKeepsError(previousResult) ==
  IF previousResult # Null
    THEN [status |-> "ready", result |-> previousResult, error |-> ErrRemutate]
    ELSE [status |-> "error", result |-> result, error |-> ErrRemutate]

\* What the catch block of handleRemutate leaves in (status, result, error).
RemutateCatch(previousResult) ==
  IF previousResult # Null
    THEN [status |-> "ready", result |-> previousResult, error |-> NoError]
    ELSE [status |-> "error", result |-> result, error |-> ErrRemutate]

RemutateReject(g) ==
  /\ g \in gens /\ g.kind = "remutate"
  /\ gens' = gens \ {g}
  /\ restored' = (g.prev # Null)
  /\ status' = RemutateCatch(g.prev).status
  /\ result' = RemutateCatch(g.prev).result
  /\ error' = RemutateCatch(g.prev).error
  /\ UNCHANGED <<mounted, nftData, showSuccessModal, mintSuccessData,
                 isMinting, nextRun>>
  /\ UNCHANGED mintVars
  /\ UNCHANGED envVars

\* ------------------------------------------------------------ mint chain
\* The content identifier the storage provider answers with: the storage is
\* content-addressed, the identifier stands for what was pinned.
IpfsHash(content) == [pinned |-> content]

\* The gateway URL built from a content identifier.
GatewayUrl(cid) == [host |-> "gateway.pinata.cloud", cid |-> cid]

\* The error messages an awaited step of the chain can reject with.
\* MsgFailed stands for every message without the word "rejected" (fetch
\* failure, HTTP status, revert, timeout), MsgBodyRejected for a Pinata
\* failure whose response body, which the message quotes, has that word.
MsgFailed == "failed"
MsgBodyRejected == "Pinata upload failed (403): request rejected"
MsgUserRejected == "User rejected the request."
MsgMissingJwt == "Missing VITE_PINATA_JWT for IPFS uploads"

\* An upload whose getPinataJwt threw made no request: it rejects with that
\* error and nothing else.
RejectMessages(pc) ==
  CASE pc = "blobFromUrl" -> {MsgFailed}
    [] pc = "uploadImageBlob" ->
         IF pinataJwt = Null THEN {MsgMissingJwt} ELSE {MsgFailed, MsgBodyRejected}
    [] pc = "uploadMetadata" ->
         IF pinataJwt = Null THEN {MsgMissingJwt} ELSE {MsgFailed, MsgBodyRejected}
    [] pc = "switchChain" -> {MsgUserRejected, MsgFailed}
    [] pc = "writeContract" -> {MsgUserRejected, MsgFailed}
    [] pc = "waitForTransactionReceipt" -> {MsgFailed}
    [] OTHER -> {}

\* err.message.includes("rejected")
IncludesRejected(msg) == msg \in {MsgBodyRejected, MsgUserRejected}

\* The message the catch block of handleProceedToMint passes to alert().
ErrorMessage(msg) ==
  IF IncludesRejected(msg) THEN "Transaction cancelled" ELSE msg

\* The guard without its isMinting test.
MintGuardIgnoresMinting == ~(result = Null \/ status # "ready")

\* The guard at the top of handleProceedToMint.
MintGuard == ~(result = Null \/ status # "ready" \/ isMinting)

\* A chain that takes the image of the source asset instead of the result.
NewChainUploadsSource ==
  [pc |-> "haptics",
   result |-> nftData.image, nft |-> nftData,
   imageUri |-> Null, metadataUri |-> Null, metaDoc |-> Null, mintArgs |-> Null,
   observedChain |-> Null, tx |-> Null, hash |-> Null, tokenId |-> Null,
   calls |-> <<>>, http |-> <<>>, failedAt |-> "none", err |-> "none"]

\* The closure of an accepted handleProceedToMint call: result and nftData
\* of the render the handler belongs to.
NewChain ==
  [pc |-> "haptics",
   result |-> result[1], nft |-> nftData,
   imageUri |-> Null, metadataUri |-> Null, metaDoc |-> Null, mintArgs |-> Null,
   observedChain |-> Null, tx |-> Null, hash |-> Null, tokenId |-> Null,
   calls |-> <<>>, http |-> <<>>, failedAt |-> "none", err |-> "none"]

\* A click on the mint button (or any other invocation of the handler).
HandleProceedToMint ==
  /\ mounted
  /\ IF MintGuard
       THEN /\ isMinting' = TRUE
            /\ chains' = chains \cup {NewChain}
       ELSE UNCHANGED <<isMinting, chains>>
  /\ UNCHANGED <<mounted, nftData, status, result, error, showSuccessModal,
                 mintSuccessData>>
  /\ UNCHANGED genVars
  /\ UNCHANGED walletChain
  /\ UNCHANGED envVars

Step(c, d) == chains' = (chains \ {c}) \cup {d}

Call(c, op) == [c EXCEPT !.pc = op, !.calls = Append(c.calls, op)]

\* An upload that posts to the storage provider before it looks for the
\* credential.
UploadWithoutCredentialCheck(c, op, endpoint) ==
  [Call(c, op) EXCEPT !.http = Append(@, endpoint)]

\* A call of uploadImageBlob or uploadMetadata up to its await: getPinataJwt
\* throws when the credential is not set, else the form or payload is posted
\* to the endpoint.
Upload(c, op, endpoint) ==
  IF pinataJwt = Null THEN Call(c, op)
  ELSE [Call(c, op) EXCEPT !.http = Append(@, endpoint)]

\* sdk.haptics.impactOccurred settles (a rejection is caught and ignored);
\* blobFromUrl(result.mutatedImageUrl) is called.
HapticsSettled(c) ==
  /\ c \in chains /\ c.pc = "haptics"
  /\ Step(c, Call(c, "blobFromUrl"))
  /\ UNCHANGED compVars
  /\ UNCHANGED genVars
  /\ UNCHANGED walletChain
  /\ UNCHANGED envVars

\* blobFromUrl resolves; uploadImageBlob(imageBlob) is called.
BlobFromUrlResolves(c) ==
  /\ c \in chains /\ c.pc = "blobFromUrl"
  /\ Step(c, Upload(c, "uploadImageBlob", "pinFileToIPFS"))
  /\ UNCHANGED compVars
  /\ UNCHANGED genVars
  /\ UNCHANGED walletChain
  /\ UNCHANGED envVars

\* A metadata document whose image is the data URL of the result instead of
\* the URI the image upload returned.
MetadataWithDataUrl(c, imageUri) ==
  [name |-> <<"Mutated", c.nft.name>>,
   description |-> <<"Cyberpunk mutant version of", c.nft.name>>,
   image |-> c.result,
   origin |-> [contract |-> c.nft.contractAddress, tokenId |-> c.nft.tokenId]]

\* The metadata document handleProceedToMint builds.
Metadata(c, imageUri) ==
  [name |-> <<"Mutated", c.nft.name>>,
   description |-> <<"Cyberpunk mutant version of", c.nft.name>>,
   image |-> imageUri,
   origin |-> [contract |-> c.nft.contractAddress, tokenId |-> c.nft.tokenId]]

\* uploadImageBlob resolves with the gateway URL of the pinned image; the
\* metadata is built and uploadMetadata is called.
UploadImageBlobResolves(c) ==
  /\ c \in chains /\ c.pc = "uploadImageBlob"
  /\ pinataJwt # Null
  /\ LET uri == GatewayUrl(IpfsHash(c.result))
         d == Upload(c, "uploadMetadata", "pinJSONToIPFS")
     IN Step(c, [d EXCEPT !.imageUri = Some(uri),
                          !.metaDoc = Some(Metadata(c, uri))])
  /\ UNCHANGED compVars
  /\ UNCHANGED genVars
  /\ UNCHANGED walletChain
  /\ UNCHANGED envVars

\* The arguments handleProceedToMint passes to mintMutant.
MintArgs(c, metadataUri) ==
  [originContract |-> c.nft.contractAddress,
   originTokenId |-> c.nft.tokenId,
   metadataURI |-> metadataUri]

\* ensureBase without the switch.
EnsureBaseNeverSwitches(current) == "writeContract"

\* ensureBase up to its await: the first call mintMutant makes after reading
\* the wallet's chain id.
EnsureBase(current) ==
  IF current # BaseChain THEN "switchChain" ELSE "writeContract"

\* uploadMetadata resolves; mintMutant is called and runs ensureBase.
UploadMetadataResolves(c) ==
  /\ c \in chains /\ c.pc = "uploadMetadata"
  /\ pinataJwt # Null
  /\ LET uri == GatewayUrl(IpfsHash(c.metaDoc[1]))
         d == Call(c, EnsureBase(walletChain))
     IN Step(c, [d EXCEPT !.metadataUri = Some(uri),
                          !.mintArgs = Some(MintArgs(c, uri)),
                          !.observedChain = Some(walletChain)])
  /\ UNCHANGED compVars
  /\ UNCHANGED genVars
  /\ UNCHANGED walletChain
  /\ UNCHANGED envVars

\* switchChain resolves: the wallet is on Base; writeContract is called.
SwitchChainResolves(c) ==
  /\ c \in chains /\ c.pc = "switchChain"
  /\ walletChain' = BaseChain
  /\ Step(c, Call(c, "writeContract"))
  /\ UNCHANGED compVars
  /\ UNCHANGED genVars
  /\ UNCHANGED envVars

\* The transaction mintMutant hands to writeContract.
Transaction(c) ==
  [functionName |-> "mint", args |-> c.mintArgs[1], value |-> DefaultFeeEth,
   chainId |-> BaseChain]

\* The hash writeContract resolves with identifies the transaction.
TxHash(tx) == [hashOf |-> tx]

\* writeContract resolves with the hash of the submitted transaction.
WriteContractResolves(c) ==
  /\ c \in chains /\ c.pc = "writeContract"
  /\ LET tx == Transaction(c)
         d == Call(c, "waitForTransactionReceipt")
     IN Step(c, [d EXCEPT !.hash = Some(TxHash(tx)), !.tx = Some(tx)])
  /\ UNCHANGED compVars
  /\ UNCHANGED genVars
  /\ UNCHANGED walletChain
  /\ UNCHANGED envVars

\* Receipt logs: events of the contract ABI (Mutated, Transfer) and logs
\* that do not decode against it.
AbiEvents == {"Mutated", "Transfer"}
Logs ==
  {[event |-> "Mutated", tokenId |-> 1], [event |-> "Mutated", tokenId |-> 2],
   [event |-> "Transfer", tokenId |-> 1], [event |-> "Unknown", tokenId |-> 0]}

RECURSIVE SeqsUpTo(_, _)
SeqsUpTo(S, n) ==
  IF n = 0 THEN {<<>>}
  ELSE LET shorter == SeqsUpTo(S, n - 1)
       IN shorter \cup {Append(s, x) : s \in shorter, x \in S}

Receipts == SeqsUpTo(Logs, MaxLogs)

\* decodeEventLog: the decoded event, or Null where it throws.
DecodeEventLog(log) ==
  IF log.event \in AbiEvents
    THEN Some([eventName |-> log.event, args |-> [tokenId |-> log.tokenId]])
    ELSE Null

\* The loop without its break: the last Mutated log wins.
RECURSIVE ParseTokenIdNoBreak(_, _)
ParseTokenIdNoBreak(logs, i) ==
  IF i > Len(logs) THEN Null
  ELSE LET decoded == DecodeEventLog(logs[i])
           later == ParseTokenIdNoBreak(logs, i + 1)
       IN IF decoded # Null /\ decoded[1].eventName = "Mutated" /\ later = Null
            THEN Some(decoded[1].args.tokenId)
            ELSE later

\* The loop of mintMutant over receipt.logs, from index i.
RECURSIVE ParseTokenId(_, _)
ParseTokenId(logs, i) ==
  IF i > Len(logs) THEN Null
  ELSE LET decoded == DecodeEventLog(logs[i])
       IN IF decoded # Null /\ decoded[1].eventName = "Mutated"
            THEN Some(decoded[1].args.tokenId)
            ELSE ParseTokenId(logs, i + 1)

\* What mintMutant returns for a receipt whose logs are logs: {hash,
\* tokenId}.  The receipt is a local of mintMutant and is gone with it.
MintResult(c, logs) == [hash |-> c.hash, tokenId |-> ParseTokenId(logs, 1)]

\* waitForTransactionReceipt resolves; mintMutant returns and the success
\* haptic is awaited.
ReceiptResolves(c, logs) ==
  /\ c \in chains /\ c.pc = "waitForTransactionReceipt"
  /\ Step(c, [c EXCEPT !.pc = "hapticsSuccess",
                       !.hash = MintResult(c, logs).hash,
                       !.tokenId = MintResult(c, logs).tokenId])
  /\ UNCHANGED compVars
  /\ UNCHANGED genVars
  /\ UNCHANGED walletChain
  /\ UNCHANGED envVars

\* The success haptic settles: the success data is set, then finally.
MintSucceeds(c) ==
  /\ c \in chains /\ c.pc = "hapticsSuccess"
  /\ chains' = chains \ {c}
  /\ IF Live(c)
       THEN /\ mintSuccessData' =
                 Some([hash |-> c.hash[1], tokenId |-> c.tokenId,
                       imageUri |-> c.imageUri[1],
                       name |-> <<"Mutated", c.nft.name>>])
            /\ showSuccessModal' = TRUE
            /\ isMinting' = FALSE
       ELSE UNCHANGED <<mintSuccessData, showSuccessModal, isMinting>>
  /\ UNCHANGED <<mounted, nftData, status, result, error>>
  /\ UNCHANGED genVars
  /\ UNCHANGED walletChain
  /\ UNCHANGED envVars

\* A chain that calls writeContract again when the wallet rejects it.
StepRejectsResubmits(c, msg) ==
  /\ c \in chains /\ msg \in RejectMessages(c.pc)
  /\ IF c.pc = "writeContract"
       THEN Step(c, Call(c, "writeContract"))
       ELSE Step(c, [c EXCEPT !.pc = "hapticsError", !.failedAt = c.pc, !.err = msg])
  /\ UNCHANGED compVars
  /\ UNCHANGED genVars
  /\ UNCHANGED walletChain
  /\ UNCHANGED envVars

\* An awaited step rejects: the catch block is entered and awaits the error
\* haptic.
StepRejects(c, msg) ==
  /\ c \in chains /\ msg \in RejectMessages(c.pc)
  /\ Step(c, [c EXCEPT !.pc = "hapticsError", !.failedAt = c.pc, !.err = msg])
  /\ UNCHANGED compVars
  /\ UNCHANGED genVars
  /\ UNCHANGED walletChain
  /\ UNCHANGED envVars

\* The end of a failed chain without the finally block.
MintFailsWithoutFinally(c) ==
  /\ c \in chains /\ c.pc = "hapticsError"
  /\ chains' = chains \ {c}
  /\ UNCHANGED <<mounted, nftData, status, result, error, showSuccessModal,
                 mintSuccessData, isMinting>>
  /\ UNCHANGED genVars
  /\ UNCHANGED walletChain
  /\ UNCHANGED envVars

\* The error haptic settles: alert(ErrorMessage(c.err)) blocks until the user
\* dismisses it and writes no state, then finally runs.
MintFails(c) ==
  /\ c \in chains /\ c.pc = "hapticsError"
  /\ chains' = chains \ {c}
  /\ IF Live(c) THEN isMinting' = FALSE ELSE UNCHANGED isMinting
  /\ UNCHANGED <<mounted, nftData, status, result, error, showSuccessModal,
                 mintSuccessData>>
  /\ UNCHANGED genVars
  /\ UNCHANGED walletChain
  /\ UNCHANGED envVars

HandleCloseModal ==
  /\ mounted
  /\ showSuccessModal /\ mintSuccessData # Null
  /\ showSuccessModal' = FALSE
  /\ mintSuccessData' = Null
  /\ UNCHANGED <<mounted, nftData, status, result, error, isMinting>>
  /\ UNCHANGED genVars
  /\ UNCHANGED mintVars
  /\ UNCHANGED envVars

\* The user selects another network in the wallet.
WalletChainChanged(n) ==
  /\ n \in ChainIds /\ n # walletChain
  /\ walletChain' = n
  /\ UNCHANGED compVars
  /\ UNCHANGED genVars
  /\ UNCHANGED chains
  /\ UNCHANGED envVars

Next ==
  \/ Unmount
  \/ \E a \in Assets : SelectAsset(a)
  \/ \E g \in gens : LoadResolve(g)
  \/ \E g \in gens : LoadReject(g)
  \/ HandleRetry
  \/ \E g \in gens : RetryResolve(g)
  \/ \E g \in gens : RetryReject(g)
  \/ HandleRemutate
  \/ \E g \in gens : RemutateResolve(g)
  \/ \E g \in gens : RemutateReject(g)
  \/ HandleProceedToMint
  \/ \E c \in chains : HapticsSettled(c)
  \/ \E c \in chains : BlobFromUrlResolves(c)
  \/ \E c \in chains : UploadImageBlobResolves(c)
  \/ \E c \in chains : UploadMetadataResolves(c)
  \/ \E c \in chains : SwitchChainResolves(c)
  \/ \E c \in chains : WriteContractResolves(c)
  \/ \E c \in chains : \E logs \in Receipts : ReceiptResolves(c, logs)
  \/ \E c \in chains : \E msg \in RejectMessages(c.pc) : StepRejects(c, msg)
  \/ \E c \in chains : MintSucceeds(c)
  \/ \E c \in chains : MintFails(c)
  \/ HandleCloseModal
  \/ \E n \in ChainIds : WalletChainChanged(n)

Spec == Init /\ [][Next]_vars

\* --------------------------------------- a generation followed to its end
\* The component with the one generateMutatedImage call that is in flight.
InitGen ==
  /\ \E a \in Assets :
       /\ Mounted(a)
       /\ genCall = IF a.image = EmptyUrl THEN NoCall
                    ELSE GenerateMutatedImage(1, a.image)
  /\ restored = FALSE
  /\ chains = {}
  /\ walletChain = BaseChain
  /\ app = Null
  /\ pinataJwt = Some("jwt")
  /\ NotFollowed(upload) /\ NotFollowed(contract) /\ NotFollowed(mutationFee)
  /\ NotFollowed(admin) /\ NotFollowed(gemini)

\* fetch(imageUrl), blob() and the FileReader have resolved;
\* generateContentStream is requested.
SourceImageFetched ==
  /\ genCall.pc = "fetch"
  /\ genCall' = [genCall EXCEPT !.pc = "generateContentStream",
                                !.requests = Append(@, "generateContentStream")]
  /\ UNCHANGED mutationVars
  /\ UNCHANGED exceptGenCall

\* generateContentStream resolves with the response stream.
StreamOpens ==
  /\ genCall.pc = "generateContentStream"
  /\ genCall' = [genCall EXCEPT !.pc = "stream"]
  /\ UNCHANGED mutationVars
  /\ UNCHANGED exceptGenCall

\* An awaited request or the stream itself rejects; the catch block rethrows.
RequestFails ==
  /\ genCall.pc \in {"fetch", "generateContentStream", "stream"}
  /\ genCall' = [genCall EXCEPT !.pc = "thrown", !.err = ErrRequest]
  /\ UNCHANGED mutationVars
  /\ UNCHANGED exceptGenCall

\* The stream yields its next chunk.
StreamYields(chunk) ==
  /\ genCall.pc = "stream"
  /\ Len(genCall.consumed) < MaxChunks
  /\ genCall' = ProcessChunk(genCall, chunk)
  /\ UNCHANGED mutationVars
  /\ UNCHANGED exceptGenCall

\* The stream is exhausted.
StreamEnds ==
  /\ genCall.pc = "stream"
  /\ genCall' = StreamEnd(genCall)
  /\ UNCHANGED mutationVars
  /\ UNCHANGED exceptGenCall

\* The caller's await resolves with what generateMutatedImage returned.
GenReturns(g) ==
  /\ genCall.pc = "returned" /\ genCall.run = g.id
  /\ LoadResolve(g) \/ RetryResolve(g) \/ RemutateResolve(g)

\* The caller's await rejects with what generateMutatedImage threw.
GenThrows(g) ==
  /\ genCall.pc = "thrown" /\ genCall.run = g.id
  /\ LoadReject(g) \/ RetryReject(g) \/ RemutateReject(g)

NextGen ==
  \/ SourceImageFetched
  \/ StreamOpens
  \/ RequestFails
  \/ \E chunk \in Chunks : StreamYields(chunk)
  \/ StreamEnds
  \/ \E g \in gens : GenReturns(g)
  \/ \E g \in gens : GenThrows(g)
  \/ HandleRetry
  \/ HandleRemutate

SpecGen == InitGen /\ [][NextGen]_vars

\* ---------------------------------------------------------------- claims
Count(seq, x) == Cardinality({i \in 1..Len(seq) : seq[i] = x})
Called(c, op) == Count(c.calls, op) > 0
Index(seq, x) == CHOOSE i \in 1..Len(seq) : seq[i] = x
IsPrefix(s, t) == Len(s) <= Len(t) /\ \A i \in 1..Len(s) : s[i] = t[i]

ChainWithSwitch ==
  <<"blobFromUrl", "uploadImageBlob", "uploadMetadata", "switchChain",
    "writeContract", "waitForTransactionReceipt">>
ChainWithoutSwitch ==
  <<"blobFromUrl", "uploadImageBlob", "uploadMetadata",
    "writeContract", "waitForTransactionReceipt">>

\* The continuation of generation run g runs in this step.
Arrives(g) ==
  \/ LoadResolve(g) \/ LoadReject(g)
  \/ RetryResolve(g) \/ RetryReject(g)
  \/ RemutateResolve(g) \/ RemutateReject(g)

\* C1: when a re-mutate attempt that began with a non-null result fails, the
\* step that ends the attempt leaves status = ready and result equal to the
\* result held when the attempt began, never status error or result null.
C1_FailedRemutateRestoresResult ==
  [][\A g \in gens :
       (RemutateReject(g) /\ g.prev # Null) =>
         (status' = "ready" /\ result' = g.prev /\ result' # Null)]_vars

\* A failed re-mutate has just put back the image of an earlier run.
C1_Witness ==
  /\ restored /\ status = "ready"
  /\ result # Null /\ result[1].run > 0 /\ result[1].run < nextRun - 1

\* C2: in every mint chain the calls are made in the order image fetch,
\* image upload, metadata upload, (network switch,) transaction; a call is
\* made only after the one before it succeeded and none after a failure; the
\* metadata's image is the URI of the chain's image upload and the mint's
\* metadataURI the URI of the chain's metadata upload.
C2_MintChainOrder ==
  \A c \in chains :
    /\ IsPrefix(c.calls, ChainWithSwitch) \/ IsPrefix(c.calls, ChainWithoutSwitch)
    /\ c.failedAt # "none" => c.calls[Len(c.calls)] = c.failedAt
    /\ Called(c, "uploadMetadata") =>
         /\ c.imageUri = Some(GatewayUrl(IpfsHash(c.result)))
         /\ c.metaDoc # Null /\ c.metaDoc[1].image = c.imageUri[1]
    /\ ~Called(c, "uploadMetadata") => c.metaDoc = Null /\ c.mintArgs = Null
    /\ (Called(c, "switchChain") \/ Called(c, "writeContract")) =>
         /\ c.metadataUri = Some(GatewayUrl(IpfsHash(c.metaDoc[1])))
         /\ c.mintArgs # Null /\ c.mintArgs[1].metadataURI = c.metadataUri[1]
    /\ (c.tx # Null) => c.tx[1].args = c.mintArgs[1]

\* A chain has gone through both uploads and submitted its transaction.
C2_Witness ==
  \E c \in chains : c.pc = "waitForTransactionReceipt" /\ c.tx # Null

C4_NoAutomaticResubmission ==
  [][\A d \in chains' \ chains :
       /\ Count(d.calls, "writeContract") <= 1
       /\ Count(d.calls, "uploadImageBlob") <= 1
       /\ Count(d.calls, "uploadMetadata") <= 1
       /\ IF d.calls = <<>>
            THEN HandleProceedToMint
            ELSE \E c \in chains \ chains' :
                   /\ c.failedAt = "none"
                   /\ IsPrefix(c.calls, d.calls)
                   /\ Len(d.calls) <= Len(c.calls) + 1
                   /\ d.failedAt # "none" => d.calls = c.calls]_vars

\* The wallet rejected the one transaction of a chain; the chain has failed.
C4_Witness ==
  \E c \in chains :
    /\ c.pc = "hapticsError" /\ c.failedAt = "writeContract"
    /\ Count(c.calls, "writeContract") = 1

\* C5: the result or failure of a generation run that began under another
\* source asset than the current one changes neither status, result nor
\* error, whichever handler started the run.
C5_StaleRunNeverApplies ==
  [][\A g \in gens :
       (g.asset # nftData.tokenId /\ Arrives(g)) =>
         UNCHANGED <<status, result, error>>]_vars

\* C6: when a mint chain ends in failure the session is as it was when the
\* mint request was accepted: status ready, the same result, isMinting false,
\* success data and modal untouched.
C6_FailedMintLeavesReadyState ==
  [][\A c \in chains :
       (mounted /\ MintFails(c)) =>
         /\ status' = "ready" /\ result' = Some(c.result)
         /\ isMinting' = FALSE
         /\ UNCHANGED <<mintSuccessData, showSuccessModal>>]_vars

\* C7: whatever receipt a chain that awaits one gets, the tokenId mintMutant
\* returns for it is the tokenId of the first log in receipt order that
\* decodes as Mutated, undefined when there is none, and the hash it returns
\* is that of the submitted transaction; a chain for which it has returned
\* holds such a result.
C7_TokenIdOfFirstMutatedLog ==
  \A c \in chains :
    /\ c.pc = "waitForTransactionReceipt" =>
         \A logs \in Receipts :
           LET mutated == {i \in 1..Len(logs) : logs[i].event = "Mutated"}
               r == MintResult(c, logs)
           IN /\ r.hash = Some(TxHash(c.tx[1]))
              /\ IF mutated = {}
                   THEN r.tokenId = Null
                   ELSE \E i \in mutated :
                          /\ \A j \in mutated : i <= j
                          /\ r.tokenId = Some(logs[i].tokenId)
    /\ c.pc = "hapticsSuccess" =>
         /\ c.failedAt = "none"
         /\ c.hash = Some(TxHash(c.tx[1]))
         /\ \E logs \in Receipts : c.tokenId = MintResult(c, logs).tokenId

\* mintMutant returned the token id of a Mutated log of the receipt.
C7_Witness ==
  \E c \in chains :
    /\ c.pc = "hapticsSuccess" /\ c.hash # Null
    /\ c.tokenId = Some(2)

\* C8: mintMutant requests a network switch, as its first call, exactly when
\* the wallet is not on Base; the transaction is submitted only after the
\* switch succeeded and never after it failed.
C8_SwitchBeforeSubmit ==
  \A c \in chains :
    c.observedChain # Null =>
      /\ Called(c, "switchChain") <=> c.observedChain[1] # BaseChain
      /\ Called(c, "switchChain") =>
           Index(c.calls, "switchChain") = Index(c.calls, "uploadMetadata") + 1
      /\ (Called(c, "switchChain") /\ Called(c, "writeContract")) =>
           /\ Index(c.calls, "switchChain") < Index(c.calls, "writeContract")
           /\ c.failedAt # "switchChain"
      /\ c.failedAt = "switchChain" => ~Called(c, "writeContract") /\ c.tx = Null

\* The wallet was on another network, the switch succeeded, the transaction
\* was submitted.
C8_Witness ==
  \E c \in chains :
    /\ c.observedChain = Some("mainnet")
    /\ Called(c, "switchChain") /\ c.tx # Null

C10_SingleOperationInFlight ==
  Cardinality({g \in gens : ~g.cancelled}) + Cardinality(chains) <= 1

\* C11: closing the success modal after a successful mint leaves a session
\* that accepts no mint request and offers no re-mutate: the Minted state is
\* terminal and closing the modal does not leave it.
C11_MintedIsTerminal ==
  [][HandleCloseModal => (~MintGuard' /\ ~RemutateShown')]_vars

\* ------------------------------------------------ asset resolution (App)
\* App (src/src/App.tsx) resolves the caller's Warplet in loadWarplet: the
\* owner lookup checkWarpletOwnership, then the metadata lookup
\* fetchWarpletByTokenId (src/src/services/warpletService.ts).  One run of
\* loadWarplet is followed from the mount of App to its end.
MaxOwners == 2      \* entries in the owner list of one lookup response

\* Addresses are strings; a string is the sequence of its characters.
Addresses ==
  {<<"a", "b">>, <<"A", "b">>, <<"a", "B">>, <<"A", "B">>,
   <<"b", "a">>, <<"B", "a">>}

\* String.prototype.toLowerCase, character by character.
LowerChar(ch) ==
  CASE ch = "A" -> "a"
    [] ch = "B" -> "b"
    [] OTHER -> ch
ToLowerCase(s) == [i \in DOMAIN s |-> LowerChar(s[i])]

\* An entry of the owners array of a response: a string or something else.
StringEntry(s) == [type |-> "string", val |-> s]
NonStringEntries ==
  {[type |-> "number", val |-> <<>>], [type |-> "object", val |-> <<>>]}
OwnerEntries == {StringEntry(s) : s \in Addresses} \cup NonStringEntries
OwnerLists == SeqsUpTo(OwnerEntries, MaxOwners)

\* What an awaited fetch of a lookup can end in: the JSON body of a 2xx
\* response, a non-2xx response, or an exception of fetch itself.
Failure(k) == [kind |-> k, data |-> Null]
Ok(body) == [kind |-> "ok", data |-> Some(body)]
TransportFailures == {Failure("http"), Failure("throw")}

\* The bodies of getOwnersForToken: {owners: [...]}, {ownerAddresses: [...]}
\* or a body with neither array.
OwnerBodies ==
  {[owners |-> Some(l), ownerAddresses |-> Null] : l \in OwnerLists}
    \cup {[owners |-> Null, ownerAddresses |-> Some(l)] : l \in OwnerLists}
    \cup {[owners |-> Null, ownerAddresses |-> Null]}
OwnerResponses == TransportFailures \cup {Ok(b) : b \in OwnerBodies}

\* (Array.isArray(data?.owners) && data.owners) ||
\* (Array.isArray(data?.ownerAddresses) && data.ownerAddresses) || []
ExtractOwners(data) ==
  IF data.owners # Null THEN data.owners[1]
  ELSE IF data.ownerAddresses # Null THEN data.ownerAddresses[1]
  ELSE <<>>

\* owners.some without the lower-casing of either side.
IsOwnerCaseSensitive(owners, ownerAddress) ==
  \E i \in 1..Len(owners) :
    owners[i].type = "string" /\ owners[i].val = ownerAddress

\* owners.some((addr) => typeof addr === "string" &&
\*                       addr.toLowerCase() === target)
IsOwner(owners, ownerAddress) ==
  LET target == ToLowerCase(ownerAddress)
  IN \E i \in 1..Len(owners) :
       owners[i].type = "string" /\ ToLowerCase(owners[i].val) = target

\* checkWarpletOwnership: false for a non-2xx response and in its catch.
CheckWarpletOwnership(resp, ownerAddress) ==
  IF resp.kind # "ok" THEN FALSE
  ELSE IsOwner(ExtractOwners(resp.data[1]), ownerAddress)

\* The bodies of getNFTMetadata, as far as fetchWarpletByTokenId reads them.
Fids == {1, 2}
MetaBodies ==
  [name : {Null, Some("name")},
   cachedUrl : {Null, Some("cachedUrl")},
   originalUrl : {Null, Some("originalUrl")},
   rawImage : {Null, Some("rawMetadata.image")}]
MetaResponses == TransportFailures \cup {Ok(b) : b \in MetaBodies}

\* metadata?.image?.cachedUrl || metadata?.image?.originalUrl ||
\* metadata?.rawMetadata?.image || ""
MetaImage(m) ==
  IF m.cachedUrl # Null THEN m.cachedUrl[1]
  ELSE IF m.originalUrl # Null THEN m.originalUrl[1]
  ELSE IF m.rawImage # Null THEN m.rawImage[1]
  ELSE ""

\* fetchWarpletByTokenId: null for a non-2xx response and in its catch.
FetchWarpletByTokenId(resp, tokenId) ==
  IF resp.kind # "ok" THEN Null
  ELSE LET m == resp.data[1]
       IN Some([tokenId |-> tokenId,
                name |-> IF m.name # Null THEN <<m.name[1]>>
                         ELSE <<"Warplet #", tokenId>>,
                image |-> MetaImage(m)])

\* The values of App's error cell that loadWarplet sets.
ErrNoWarplet(tokenId) == <<"no_warplet:", tokenId>>
ErrCouldNotLoad(tokenId) ==
  <<"Could not load Warplet #", tokenId, ". Please try again.">>

\* error.startsWith("no_warplet:"): the view "No Warplet in This Wallet".
ShowsNotOwned(e) == e # Null /\ e[1][1] = "no_warplet:"

\* App after it mounted: the state cells and the inputs of loadWarplet.
AppMounted(fid, address) ==
  [pc |-> "effect", fid |-> fid, address |-> address,
   isLoading |-> FALSE, error |-> Null, warpletData |-> Null,
   owners |-> Null, ownsWarplet |-> Null, meta |-> Null]

\* The effect runs loadWarplet up to its first await.
LoadWarplet ==
  /\ app # Null /\ app.pc = "effect"
  /\ IF app.fid = Null \/ app.address = Null
       THEN app' = [app EXCEPT !.pc = "done"]
       ELSE app' = [app EXCEPT !.pc = "checkWarpletOwnership",
                               !.isLoading = TRUE, !.error = Null]
  /\ UNCHANGED mutationVars
  /\ UNCHANGED exceptApp

\* checkWarpletOwnership returns.
OwnershipSettles(resp) ==
  /\ app # Null /\ app.pc = "checkWarpletOwnership"
  /\ LET ownsWarplet == CheckWarpletOwnership(resp, app.address[1])
         a == [app EXCEPT !.owners = Some(resp), !.ownsWarplet = Some(ownsWarplet)]
     IN IF ~ownsWarplet
          THEN app' = [a EXCEPT !.pc = "done", !.isLoading = FALSE,
                                !.error = Some(ErrNoWarplet(app.fid[1]))]
          ELSE app' = [a EXCEPT !.pc = "fetchWarpletByTokenId"]
  /\ UNCHANGED mutationVars
  /\ UNCHANGED exceptApp

\* fetchWarpletByTokenId returns.
MetadataSettles(resp) ==
  /\ app # Null /\ app.pc = "fetchWarpletByTokenId"
  /\ LET warplet == FetchWarpletByTokenId(resp, app.fid[1])
         a == [app EXCEPT !.meta = Some(resp), !.pc = "done", !.isLoading = FALSE]
     IN IF warplet = Null
          THEN app' = [a EXCEPT !.error = Some(ErrCouldNotLoad(app.fid[1]))]
          ELSE app' = [a EXCEPT !.warpletData =
                         Some([tokenId |-> warplet[1].tokenId,
                               contractAddress |-> WarpletContract,
                               name |-> warplet[1].name,
                               image |-> warplet[1].image])]
  /\ UNCHANGED mutationVars
  /\ UNCHANGED exceptApp

\* The component variables while only App is followed: nothing is mounted.
NoMutationComponent ==
  /\ mounted = FALSE
  /\ nftData = NFTData(1)
  /\ status = "pending"
  /\ result = Null
  /\ error = NoError
  /\ showSuccessModal = FALSE
  /\ mintSuccessData = Null
  /\ isMinting = FALSE
  /\ gens = {}
  /\ nextRun = 1
  /\ restored = FALSE
  /\ chains = {}
  /\ walletChain = BaseChain

InitLoad ==
  /\ NoMutationComponent
  /\ genCall = Null
  /\ pinataJwt = Some("jwt")
  /\ NotFollowed(upload) /\ NotFollowed(contract) /\ NotFollowed(mutationFee)
  /\ NotFollowed(admin) /\ NotFollowed(gemini)
  /\ \E fid \in {Null} \cup {Some(f) : f \in Fids} :
       \E address \in {Null} \cup {Some(a) : a \in Addresses} :
         app = AppMounted(fid, address)

NextLoad ==
  \/ LoadWarplet
  \/ \E resp \in OwnerResponses : OwnershipSettles(resp)
  \/ \E resp \in MetaResponses : MetadataSettles(resp)

SpecLoad == InitLoad /\ [][NextLoad]_vars

\* Two strings are the same address up to the case of their letters.
SameIgnoringCase(s, t) ==
  /\ Len(s) = Len(t)
  /\ \A i \in 1..Len(s) :
       s[i] = t[i] \/ {s[i], t[i]} \in {{"a", "A"}, {"b", "B"}}

\* The owner list a lookup response carried; empty when it carried none.
ReturnedOwners(resp) ==
  IF resp.kind = "ok" THEN ExtractOwners(resp.data[1]) ELSE <<>>

\* The caller is one of the string entries of the returned owner list.
CallerInOwners(resp, address) ==
  \E i \in 1..Len(ReturnedOwners(resp)) :
    /\ ReturnedOwners(resp)[i].type = "string"
    /\ SameIgnoringCase(ReturnedOwners(resp)[i].val, address)

\* C12: when loadWarplet has ended, not-owned (no_warplet) is reported
\* exactly when the owner lookup returned a non-empty owner set without the
\* caller, not-found (Could not load Warplet) exactly when the metadata lookup
\* returned no data, and the asset is loaded only when the caller is in the
\* owner set and metadata was returned.
C12_NegativeOutcomesDistinguished ==
  (app # Null /\ app.pc = "done" /\ app.owners # Null) =>
    LET resp == app.owners[1]
        address == app.address[1]
    IN /\ ShowsNotOwned(app.error) <=>
            /\ resp.kind = "ok"
            /\ ReturnedOwners(resp) # <<>>
            /\ ~CallerInOwners(resp, address)
       /\ (app.error = Some(ErrCouldNotLoad(app.fid[1]))) <=>
            (app.meta # Null /\ app.meta[1].kind # "ok")
       /\ app.warpletData # Null =>
            /\ CallerInOwners(resp, address)
            /\ app.meta # Null /\ app.meta[1].kind = "ok"

\* C13: checkWarpletOwnership returns true exactly when some string entry of
\* the returned owner list equals ownerAddress up to letter case; entries
\* that are not strings never match.
C13_OwnershipIgnoresCase ==
  (app # Null /\ app.ownsWarplet # Null) =>
    (app.ownsWarplet[1] <=> CallerInOwners(app.owners[1], app.address[1]))

\* The caller was found as owner through an entry spelled in another case,
\* in a list that also holds an entry that is no string.
C13_Witness ==
  /\ app # Null /\ app.ownsWarplet = Some(TRUE)
  /\ LET owners == ReturnedOwners(app.owners[1])
     IN /\ \A i \in 1..Len(owners) : owners[i].val # app.address[1]
        /\ \E i \in 1..Len(owners) : owners[i].type # "string"

\* C18: when a lookup of loadWarplet ended in a transport failure (exception
\* or non-2xx response), the user sees an error that is neither the
\* not-owned nor the not-found outcome.
C18_TransportFailureIsFetchError ==
  (app # Null /\ app.pc = "done" /\ app.owners # Null) =>
    ((app.owners[1] \in TransportFailures
      \/ (app.meta # Null /\ app.meta[1] \in TransportFailures)) =>
       /\ app.error # Null
       /\ ~ShowsNotOwned(app.error)
       /\ app.error # Some(ErrCouldNotLoad(app.fid[1])))

\* -------------------------------------------------- intensity profile
\* getMutationConfig (src/src/services/warpletService.ts) is applied by
\* generateMutatedImage to options.strength ?? 0.6.  A strength is counted in
\* hundredths: 40 stands for 0.4.
Strengths == 0..100
DefaultStrength == 60

\* getMutationConfig with the boundaries in the lower tier.
GetMutationConfigInclusive(strength) ==
  IF strength <= 40
    THEN [level |-> "subtle", mutationPercent |-> 30, preservePercent |-> 70]
  ELSE IF strength <= 70
    THEN [level |-> "moderate", mutationPercent |-> 60, preservePercent |-> 40]
  ELSE [level |-> "heavy", mutationPercent |-> 90, preservePercent |-> 10]

GetMutationConfig(strength) ==
  IF strength < 40
    THEN [level |-> "subtle", mutationPercent |-> 30, preservePercent |-> 70]
  ELSE IF strength < 70
    THEN [level |-> "moderate", mutationPercent |-> 60, preservePercent |-> 40]
  ELSE [level |-> "heavy", mutationPercent |-> 90, preservePercent |-> 10]

\* generateMutatedImage is entered with options.strength (Null: not given).
InitConfig ==
  /\ NoMutationComponent
  /\ app = Null
  /\ pinataJwt = Some("jwt")
  /\ NotFollowed(upload) /\ NotFollowed(contract) /\ NotFollowed(mutationFee)
  /\ NotFollowed(admin) /\ NotFollowed(gemini)
  /\ \E s \in {Null} \cup {Some(x) : x \in Strengths} :
       genCall = [pc |-> "options", given |-> s, strength |-> Null,
                  mutationConfig |-> Null]

\* const strength = options.strength ?? 0.6
DetermineStrength ==
  /\ genCall.pc = "options"
  /\ genCall' = [genCall EXCEPT
       !.pc = "strength",
       !.strength = IF genCall.given # Null THEN genCall.given
                    ELSE Some(DefaultStrength)]
  /\ UNCHANGED mutationVars
  /\ UNCHANGED exceptGenCall

\* const mutationConfig = this.getMutationConfig(strength)
DetermineConfig ==
  /\ genCall.pc = "strength"
  /\ genCall' = [genCall EXCEPT
       !.pc = "mutationConfig",
       !.mutationConfig = Some(GetMutationConfig(genCall.strength[1]))]
  /\ UNCHANGED mutationVars
  /\ UNCHANGED exceptGenCall

NextConfig ==
  \/ DetermineStrength
  \/ DetermineConfig

SpecConfig == InitConfig /\ [][NextConfig]_vars

\* C14: the profile computed for a strength in [0, 1] is (subtle, 30, 70)
\* below 0.4, (moderate, 60, 40) from 0.4 to below 0.7 and (heavy, 90, 10) from
\* 0.7 on, and its two percentages add up to 100.
C14_IntensityProfile ==
  (genCall # Null /\ genCall.pc = "mutationConfig") =>
    LET s == genCall.strength[1]
        p == genCall.mutationConfig[1]
        profile == <<p.level, p.mutationPercent, p.preservePercent>>
    IN /\ s \in 0..39 => profile = <<"subtle", 30, 70>>
       /\ s \in 40..69 => profile = <<"moderate", 60, 40>>
       /\ s \in 70..100 => profile = <<"heavy", 90, 10>>
       /\ p.mutationPercent + p.preservePercent = 100

\* The profile of a strength on a boundary has been computed.
C14_Witness ==
  /\ genCall # Null /\ genCall.pc = "mutationConfig"
  /\ genCall.strength = Some(40)
  /\ genCall.mutationConfig[1].level = "moderate"

\* A chunk contains a part with inline image bytes and a MIME type.
ImageParts(chunk) ==
  IF chunk.parts = Null THEN {}
  ELSE {i \in 1..Len(chunk.parts[1]) :
          /\ chunk.parts[1][i].inlineData # Null
          /\ chunk.parts[1][i].inlineData[1].data # ""
          /\ chunk.parts[1][i].inlineData[1].mimeType # ""}

\* The data URI of the first image part of a chunk that has one.
ImageOf(chunk) ==
  LET i == CHOOSE i \in ImageParts(chunk) : \A j \in ImageParts(chunk) : i <= j
      inlineData == chunk.parts[1][i].inlineData[1]
  IN DataUrl(inlineData.mimeType, inlineData.data)

\* C15: once a chunk with an inline image part has been consumed, the call
\* has returned the image of the first such chunk as a data URI with that
\* chunk's MIME type and that chunk is the last one consumed; a chunk without
\* the nested candidates/content/parts fields never makes the call throw.
C15_FirstImageChunkReturned ==
  (genCall # Null /\ genCall.pc \in {"stream", "returned", "thrown"}) =>
    LET consumed == genCall.consumed
        images == {i \in 1..Len(consumed) : ImageParts(consumed[i]) # {}}
    IN /\ images # {} =>
            /\ genCall.pc = "returned"
            /\ \E i \in images :
                 /\ \A j \in images : i <= j
                 /\ i = Len(consumed)
                 /\ genCall.imageUrl = Some(ImageOf(consumed[i]))
       /\ (genCall.err = ErrTypeError) =>
            consumed[Len(consumed)].parts # Null

\* C16: a response stream that ends without an image makes
\* generateMutatedImage throw the no-image error and return nothing, and the
\* initial or retried generation of MutationComponent that fails this way
\* ends in status error with result as it was.
C16_NoImageEndsInError ==
  [][/\ StreamEnds =>
          /\ genCall'.pc = "thrown" /\ genCall'.err = ErrNoImage
          /\ genCall'.imageUrl = Null
     /\ \A g \in gens :
          (genCall.err = ErrNoImage /\ g.kind \in {"load", "retry"}
           /\ GenThrows(g)) =>
            /\ status' = "error" /\ error' = ErrGenerate
            /\ result' = result
            /\ g \notin gens']_vars

\* A generation whose stream held a text chunk only has ended in status error.
C16_Witness ==
  /\ mounted /\ status = "error" /\ result = Null /\ gens = {}
  /\ genCall # Null /\ genCall.pc = "thrown" /\ genCall.err = ErrNoImage
  /\ genCall.consumed = <<[parts |-> Some(<<TextPart>>)]>>

\* C19: with a source asset whose image URI is empty the session is in
\* status error and neither the source-image fetch nor a generation request
\* has been issued.
C19_EmptyImageFails ==
  (mounted /\ genCall # Null /\ nftData.image = EmptyUrl) =>
    /\ status = "error"
    /\ genCall.requests = <<>>

\* C17: without a publishing credential an upload fails with the
\* missing-credential error before any request is posted to the storage
\* provider, and the chain makes no metadata upload and no mint transaction.
C17_MissingCredentialFailsFast ==
  pinataJwt = Null =>
    \A c \in chains :
      /\ c.http = <<>>
      /\ Called(c, "uploadImageBlob") =>
           /\ c.pc \in {"uploadImageBlob", "hapticsError"}
           /\ c.pc = "hapticsError" =>
                (c.failedAt = "uploadImageBlob" /\ c.err = MsgMissingJwt)
      /\ ~Called(c, "uploadMetadata")
      /\ ~Called(c, "switchChain") /\ ~Called(c, "writeContract")
      /\ c.tx = Null /\ c.metaDoc = Null

\* The image upload of a chain has failed for the missing credential.
C17_Witness ==
  /\ pinataJwt = Null
  /\ \E c \in chains :
       /\ c.pc = "hapticsError" /\ c.failedAt = "uploadImageBlob"
       /\ c.err = MsgMissingJwt /\ c.http = <<>>

\* C20: the message shown for a failed mint chain is 'Transaction cancelled'
\* exactly when the user rejected a request in the wallet; a technical
\* failure is shown with another message.
C20_CancelledIffUserRejection ==
  \A c \in chains :
    c.pc = "hapticsError" =>
      (ErrorMessage(c.err) = "Transaction cancelled" <=>
         (c.failedAt \in {"switchChain", "writeContract"}
          /\ c.err = MsgUserRejected))

\* ------------------------------------------------ an upload on its own
\* uploadImageBlob and uploadMetadata (src/src/services/ipfs.ts) differ in the
\* endpoint and the payload only.  One call is followed: getPinataJwt, the
\* POST, then the evaluation of the response.
UploadFunctions == {"uploadImageBlob", "uploadMetadata"}
DefaultGatewayHost == "gateway.pinata.cloud"

\* import.meta.env.VITE_PINATA_GATEWAY_DOMAIN: not set, empty, or a domain.
GatewayDomains == {Null, Some(""), Some("my.gateway.example")}

\* HTTP status codes of the storage provider's answer.
HttpStatuses == {200, 201, 403, 500}
ResOk(httpStatus) == httpStatus >= 200 /\ httpStatus <= 299

\* The JSON bodies of an answer, as far as the code reads them; NotJson is a
\* body res.json() cannot parse.
NotJson == [IpfsHash |-> Some("<html>"), ipfsHash |-> Some("<html>"),
            cid |-> Some("<html>"), json |-> FALSE]
JsonBodies ==
  [IpfsHash : {Null, Some(""), Some("QmA")},
   ipfsHash : {Null, Some("QmB")},
   cid : {Null, Some("bafyC")},
   json : {TRUE}]
UploadResponses ==
  [httpStatus : HttpStatuses, body : JsonBodies \cup {NotJson}]

\* A JavaScript value used as a condition: undefined and "" are falsy.
Truthy(v) == v # Null /\ v # Some("")

\* json?.IpfsHash || json?.ipfsHash || json?.cid
CidOf(json) ==
  IF Truthy(json.IpfsHash) THEN json.IpfsHash
  ELSE IF Truthy(json.ipfsHash) THEN json.ipfsHash
  ELSE json.cid

\* gatewayBase ? `https://${gatewayBase}/ipfs/${cid}`
\*             : `https://gateway.pinata.cloud/ipfs/${cid}`
GatewayUrlAt(gatewayBase, cid) ==
  [host |-> IF Truthy(gatewayBase) THEN gatewayBase[1] ELSE DefaultGatewayHost,
   cid |-> cid]

Returned(u, url) == [u EXCEPT !.pc = "returned", !.url = Some(url)]
Thrown(u, err) == [u EXCEPT !.pc = "thrown", !.err = err]

\* The evaluation of the response without the test for a missing CID.
UploadResultNoCidCheck(u, res) ==
  IF ~ResOk(res.httpStatus) THEN Thrown(u, "Pinata upload failed")
  ELSE IF ~res.body.json THEN Thrown(u, "SyntaxError")
  ELSE Returned(u, GatewayUrlAt(u.gatewayBase, CidOf(res.body)))

\* The code after the awaited POST: the call throws for a non-2xx status,
\* for a body that is no JSON and for a body without a CID.
UploadResult(u, res) ==
  IF ~ResOk(res.httpStatus) THEN Thrown(u, "Pinata upload failed")
  ELSE IF ~res.body.json THEN Thrown(u, "SyntaxError")
  ELSE IF ~Truthy(CidOf(res.body))
    THEN Thrown(u, "Invalid Pinata response (missing CID)")
  ELSE Returned(u, GatewayUrlAt(u.gatewayBase, CidOf(res.body)))

InitUpload ==
  /\ NoMutationComponent
  /\ NotFollowed(app) /\ NotFollowed(genCall)
  /\ NotFollowed(contract) /\ NotFollowed(mutationFee)
  /\ NotFollowed(admin) /\ NotFollowed(gemini)
  /\ pinataJwt \in {Null, Some("jwt")}
  /\ \E f \in UploadFunctions : \E g \in GatewayDomains :
       upload = [fn |-> f, pc |-> "called", gatewayBase |-> g, posted |-> FALSE,
                 res |-> Null, url |-> Null, err |-> "none"]

\* The call up to its await: getPinataJwt, then the POST.
UploadPosts ==
  /\ upload.pc = "called"
  /\ upload' = IF pinataJwt = Null THEN Thrown(upload, MsgMissingJwt)
               ELSE [upload EXCEPT !.pc = "fetch", !.posted = TRUE]
  /\ UNCHANGED mutationVars
  /\ UNCHANGED <<app, genCall, pinataJwt, contract, mutationFee, admin, gemini>>

\* The POST is answered.
UploadResponds(res) ==
  /\ upload.pc = "fetch"
  /\ upload' = UploadResult([upload EXCEPT !.res = Some(res)], res)
  /\ UNCHANGED mutationVars
  /\ UNCHANGED <<app, genCall, pinataJwt, contract, mutationFee, admin, gemini>>

\* fetch itself rejects.
UploadFetchThrows ==
  /\ upload.pc = "fetch"
  /\ upload' = Thrown(upload, "TypeError: Failed to fetch")
  /\ UNCHANGED mutationVars
  /\ UNCHANGED <<app, genCall, pinataJwt, contract, mutationFee, admin, gemini>>

NextUpload ==
  \/ UploadPosts
  \/ \E res \in UploadResponses : UploadResponds(res)
  \/ UploadFetchThrows

SpecUpload == InitUpload /\ [][NextUpload]_vars

\* C21: an upload returns a URI only for a 2xx answer that carries a content
\* identifier, the URI is https://<host>/ipfs/<cid> with the configured
\* gateway domain or gateway.pinata.cloud as host, and for a non-2xx answer
\* or a 2xx answer without a content identifier it throws and returns none.
C21_UriOnlyFor2xxWithCid ==
  (upload # Null /\ upload.pc \in {"returned", "thrown"}) =>
    LET answered == upload.res # Null
        res == upload.res[1]
        cids == {v \in {res.body.IpfsHash, res.body.ipfsHash, res.body.cid} :
                   v # Null /\ v # Some("")}
        good == /\ answered
                /\ res.httpStatus \in 200..299
                /\ res.body.json /\ cids # {}
        host == IF upload.gatewayBase \in {Null, Some("")}
                  THEN "gateway.pinata.cloud" ELSE upload.gatewayBase[1]
    IN /\ upload.pc = "returned" <=> good
       /\ upload.pc = "returned" =>
            /\ upload.url # Null
            /\ upload.url[1].host = host
            /\ upload.url[1].cid \in cids
       /\ upload.pc = "thrown" => upload.url = Null

\* An upload returned the URI at the default gateway for an answer whose
\* first identifier field is empty.
C21_Witness ==
  /\ upload # Null /\ upload.pc = "returned"
  /\ upload.gatewayBase = Some("")
  /\ upload.res[1].httpStatus = 201
  /\ upload.res[1].body.IpfsHash = Some("")
  /\ upload.url = Some([host |-> DefaultGatewayHost, cid |-> Some("QmB")])

\* ------------------------------------------- generation runs on their own
\* The handlers that start and end generation runs, the asset change and the
\* mint request of MutationComponent, without the steps of a mint chain and
\* for one generation run more than Spec follows.
InitRuns ==
  /\ Init
  /\ walletChain = BaseChain
  /\ pinataJwt = Some("jwt")

NextRuns ==
  \/ Unmount
  \/ \E a \in Assets : SelectAssetUpTo(a, MaxRuns + 1)
  \/ \E g \in gens : LoadResolve(g) \/ LoadReject(g)
  \/ HandleRetryUpTo(MaxRuns + 1)
  \/ \E g \in gens : RetryResolve(g) \/ RetryReject(g)
  \/ HandleRemutateUpTo(MaxRuns + 1)
  \/ \E g \in gens : RemutateResolve(g) \/ RemutateReject(g)
  \/ HandleProceedToMint

SpecRuns == InitRuns /\ [][NextRuns]_vars

StatusEdges ==
  {<<"pending", "generating">>, <<"generating", "ready">>,
   <<"generating", "error">>, <<"error", "generating">>,
   <<"ready", "generating">>}

\* C22: while the component is mounted its status changes only from pending
\* to generating, from generating to ready or error, and from error or ready
\* to generating; the result does not change while status stays ready; a
\* mint chain starts only when status is ready.
C22_StatusFollowsStateMachine ==
  [][(mounted /\ mounted') =>
       /\ status' # status => <<status, status'>> \in StatusEdges
       /\ (status = "ready" /\ status' = "ready") => result' = result
       /\ chains' # chains => status = "ready"]_vars

\* C23: the origin contract, the origin token id and the name a submitted
\* mint carries in its metadata and in its arguments are those of the asset
\* from whose image the minted result was generated.
C23_OriginIsAssetOfResult ==
  \A c \in chains :
    Called(c, "writeContract") =>
      LET source == NFTData(c.result.origin)
      IN /\ c.mintArgs[1].originContract = source.contractAddress
         /\ c.mintArgs[1].originTokenId = source.tokenId
         /\ c.metaDoc[1].origin.tokenId = source.tokenId
         /\ c.metaDoc[1].name = <<"Mutated", source.name>>

\* C25: status ready implies a non-null result; a mint chain is started only
\* with status ready, a non-null result and isMinting false; a chain keeps
\* the result it was started with, and the image it uploaded is that result.
C25_MintStartsFromReadyResult ==
  /\ (status = "ready" => result # Null)
  /\ [][/\ status' = "ready" => result' # Null
        /\ \A d \in chains' \ chains :
             IF d.calls = <<>>
               THEN /\ status = "ready" /\ result # Null /\ ~isMinting
                    /\ d.result = result[1]
               ELSE /\ \E c \in chains \ chains' : c.result = d.result
                    /\ d.imageUri # Null =>
                         d.imageUri[1] = GatewayUrl(IpfsHash(d.result))]_vars

\* A chain has uploaded the result it was started with while the component
\* already shows the result of a later generation run.
C25_Witness ==
  \E c \in chains :
    /\ c.imageUri = Some(GatewayUrl(IpfsHash(c.result)))
    /\ mounted /\ status = "ready"
    /\ result # Null /\ result # Some(c.result)

\* ------------------------------------------ the MutantWarplets contract
\* The contract of src/unnamed/part_007 with the behaviour it inherits from
\* the OpenZeppelin ERC721, Ownable and ReentrancyGuard contracts as far as
\* mint, setMutationFee and withdraw use it.  A reverted call leaves the
\* storage as it was; the field last keeps the outcome of the latest call.
\* Amounts are in gwei (10^9 wei).
MaxTokens == 3      \* tokens minted in one behaviour

DefaultFeeGwei == 370000      \* 370_000_000_000_000 wei, 0.00037 ether
Fees == {0, DefaultFeeGwei, 500000}

ContractOwner == "0xOwner"
\* A contract account without onERC721Received: _safeMint to it reverts.
NonReceivers == {"0xVault"}
Accounts == {ContractOwner, "0xAlice"} \cup NonReceivers

Origins ==
  {[originContract |-> WarpletContract, originTokenId |-> 1],
   [originContract |-> "0xOtherCollection", originTokenId |-> 2]}
MetadataUris == {"ipfs://metadata"}

\* The storage after the constructor.
Deployed ==
  [owner |-> ContractOwner,
   mutationFee |-> DefaultFeeGwei,
   _nextTokenId |-> 1,
   owners |-> {}, tokenURIs |-> {}, originOf |-> {},
   events |-> <<>>, balance |-> 0, last |-> "deployed"]

Reverted(c, err) == [c EXCEPT !.last = err]

Exists(c, tokenId) == \E t \in c.owners : t.tokenId = tokenId

\* mapping[key] = value
Store(mapping, tokenId, entry) ==
  {e \in mapping : e.tokenId # tokenId} \cup {entry}

MutatedEvent(tokenId, origin, minter) ==
  [event |-> "Mutated", tokenId |-> tokenId,
   originContract |-> origin.originContract,
   originTokenId |-> origin.originTokenId, minter |-> minter]

\* mint without the comparison of msg.value with mutationFee.
MintCallAnyValue(c, sender, value, origin, metadataURI) ==
  LET tokenId == c._nextTokenId
  IN IF sender \in NonReceivers \/ Exists(c, tokenId)
       THEN Reverted(c, "ERC721InvalidReceiver")
     ELSE [c EXCEPT
             !._nextTokenId = tokenId + 1,
             !.owners = @ \cup {[tokenId |-> tokenId, owner |-> sender]},
             !.tokenURIs = Store(@, tokenId,
                                 [tokenId |-> tokenId, uri |-> metadataURI]),
             !.originOf = Store(@, tokenId,
                                [tokenId |-> tokenId,
                                 originContract |-> origin.originContract,
                                 originTokenId |-> origin.originTokenId]),
             !.events = Append(@, MutatedEvent(tokenId, origin, sender)),
             !.balance = @ + value,
             !.last = "minted"]

\* mint(originContract, originTokenId, metadataURI) sent by sender with
\* msg.value = value.
MintCall(c, sender, value, origin, metadataURI) ==
  LET tokenId == c._nextTokenId
  IN IF value # c.mutationFee THEN Reverted(c, "IncorrectFee")
     ELSE IF sender \in NonReceivers \/ Exists(c, tokenId)
       THEN Reverted(c, "ERC721InvalidReceiver")
     ELSE [c EXCEPT
             !._nextTokenId = tokenId + 1,
             !.owners = @ \cup {[tokenId |-> tokenId, owner |-> sender]},
             !.tokenURIs = Store(@, tokenId,
                                 [tokenId |-> tokenId, uri |-> metadataURI]),
             !.originOf = Store(@, tokenId,
                                [tokenId |-> tokenId,
                                 originContract |-> origin.originContract,
                                 originTokenId |-> origin.originTokenId]),
             !.events = Append(@, MutatedEvent(tokenId, origin, sender)),
             !.balance = @ + value,
             !.last = "minted"]

\* setMutationFee(newFee) sent by sender.
SetMutationFeeCall(c, sender, newFee) ==
  IF sender # c.owner THEN Reverted(c, "OwnableUnauthorizedAccount")
  ELSE [c EXCEPT !.mutationFee = newFee, !.last = "feeSet"]

\* withdraw() sent by sender; the owner is an account that accepts ether.
WithdrawCall(c, sender) ==
  IF sender # c.owner THEN Reverted(c, "OwnableUnauthorizedAccount")
  ELSE [c EXCEPT !.balance = 0, !.last = "withdrawn"]

exceptContract == <<app, genCall, pinataJwt, upload, mutationFee, admin, gemini>>

InitContract ==
  /\ NoMutationComponent
  /\ NotFollowed(app) /\ NotFollowed(genCall) /\ NotFollowed(pinataJwt)
  /\ NotFollowed(upload) /\ NotFollowed(mutationFee)
  /\ NotFollowed(admin) /\ NotFollowed(gemini)
  /\ contract = Deployed

Mint(sender, value, origin, metadataURI) ==
  /\ contract._nextTokenId <= MaxTokens
  /\ contract' = MintCall(contract, sender, value, origin, metadataURI)
  /\ UNCHANGED mutationVars
  /\ UNCHANGED exceptContract

SetMutationFee(sender, newFee) ==
  /\ contract' = SetMutationFeeCall(contract, sender, newFee)
  /\ UNCHANGED mutationVars
  /\ UNCHANGED exceptContract

Withdraw(sender) ==
  /\ contract' = WithdrawCall(contract, sender)
  /\ UNCHANGED mutationVars
  /\ UNCHANGED exceptContract

NextContract ==
  \/ \E sender \in Accounts, value \in Fees, origin \in Origins,
        metadataURI \in MetadataUris : Mint(sender, value, origin, metadataURI)
  \/ \E sender \in Accounts, newFee \in Fees : SetMutationFee(sender, newFee)
  \/ \E sender \in Accounts : Withdraw(sender)

SpecContract == InitContract /\ [][NextContract]_vars

TokenState(c) == <<c._nextTokenId, c.owners, c.tokenURIs, c.originOf, c.events>>

\* C28: a mint call whose value differs from the current mutationFee reverts
\* with IncorrectFee and changes no token, URI, origin record or counter; a
\* successful mint takes the next id, which no token had before, records
\* the call's origin under it and emits exactly one Mutated event with that
\* id, that origin and the caller; the ids of the Mutated events are
\* 1, 2, 3, ... in the order of the mints.
C28_MintContract ==
  [][/\ \A i \in 1..Len(contract'.events) : contract'.events[i].tokenId = i
     /\ \A sender \in Accounts, value \in Fees, origin \in Origins,
           metadataURI \in MetadataUris :
          Mint(sender, value, origin, metadataURI) =>
            /\ value # contract.mutationFee =>
                 /\ contract'.last = "IncorrectFee"
                 /\ TokenState(contract') = TokenState(contract)
                 /\ contract'.balance = contract.balance
            /\ contract'.last # "minted" =>
                 TokenState(contract') = TokenState(contract)
            /\ contract'.last = "minted" =>
                 LET tokenId == contract._nextTokenId
                 IN /\ value = contract.mutationFee
                    /\ ~Exists(contract, tokenId)
                    /\ \A t \in contract.owners : t.tokenId < tokenId
                    /\ contract'._nextTokenId = tokenId + 1
                    /\ [tokenId |-> tokenId, owner |-> sender]
                         \in contract'.owners
                    /\ {e \in contract'.originOf : e.tokenId = tokenId} =
                         {[tokenId |-> tokenId,
                           originContract |-> origin.originContract,
                           originTokenId |-> origin.originTokenId]}
                    /\ {e \in contract'.originOf : e.tokenId # tokenId} =
                         contract.originOf
                    /\ contract'.events =
                         Append(contract.events,
                                [event |-> "Mutated", tokenId |-> tokenId,
                                 originContract |-> origin.originContract,
                                 originTokenId |-> origin.originTokenId,
                                 minter |-> sender])]_vars

\* Two tokens were minted, the fee was changed in between, and the latest
\* call was a mint with the wrong value.
C28_Witness ==
  /\ contract # Null
  /\ Len(contract.events) = 2 /\ contract._nextTokenId = 3
  /\ contract.mutationFee # DefaultFeeGwei
  /\ contract.balance > 2 * DefaultFeeGwei
  /\ contract.last = "IncorrectFee"

\* ------------------------------------- the mint flow against the contract
\* MutationComponent from its mount with an asset that has an image, with
\* the contract whose fee it reads and to which its chain submits: the fee
\* read by useReadContract, the owner's setMutationFee, the mint request and
\* the steps of the chain.
WalletAccount == "0xAlice"

\* viem's parseEther and formatEther on the amounts of Fees (in gwei).
ParseEther(ether) ==
  CASE ether = "0" -> 0
    [] ether = "0.00037" -> 370000
    [] ether = "0.0005" -> 500000

FormatEther(amount) ==
  CASE amount = 0 -> "0"
    [] amount = 370000 -> "0.00037"
    [] amount = 500000 -> "0.0005"

\* The fee line of the mint button:
\* {mutationFee ? formatEther(mutationFee) : "0.00037"} ETH; 0n is falsy.
DisplayedFee ==
  IF mutationFee # Null /\ mutationFee[1] # 0
    THEN FormatEther(mutationFee[1]) ELSE "0.00037"

InitMint ==
  /\ Mounted(NFTData(1))
  /\ restored = FALSE
  /\ chains = {}
  /\ walletChain \in ChainIds
  /\ pinataJwt \in {Null, Some("jwt")}
  /\ NotFollowed(app) /\ NotFollowed(genCall) /\ NotFollowed(upload)
  /\ NotFollowed(admin) /\ NotFollowed(gemini)
  /\ contract = Deployed
  /\ mutationFee = Null

\* useReadContract delivers the contract's mutationFee (first read or
\* refetch).
ReadMutationFee ==
  /\ mounted
  /\ mutationFee' = Some(contract.mutationFee)
  /\ UNCHANGED mutationVars
  /\ UNCHANGED <<app, genCall, pinataJwt, upload, contract, admin, gemini>>

\* An awaited call of a chain settles, or the handler runs to its end.
ChainStep(c) ==
  \/ HapticsSettled(c)
  \/ BlobFromUrlResolves(c)
  \/ UploadImageBlobResolves(c)
  \/ UploadMetadataResolves(c)
  \/ SwitchChainResolves(c)
  \/ WriteContractResolves(c)
  \/ \E logs \in Receipts : ReceiptResolves(c, logs)
  \/ \E msg \in RejectMessages(c.pc) : StepRejects(c, msg)
  \/ MintSucceeds(c)
  \/ MintFails(c)

NextMint ==
  \/ \E g \in gens : LoadResolve(g)
  \/ ReadMutationFee
  \/ \E newFee \in Fees : SetMutationFee(ContractOwner, newFee)
  \/ HandleProceedToMint
  \/ \E c \in chains : HapticsSettled(c)
  \/ \E c \in chains : BlobFromUrlResolves(c)
  \/ \E c \in chains : UploadImageBlobResolves(c)
  \/ \E c \in chains : UploadMetadataResolves(c)
  \/ \E c \in chains : SwitchChainResolves(c)
  \/ \E c \in chains : WriteContractResolves(c)
  \/ \E c \in chains : \E logs \in Receipts : ReceiptResolves(c, logs)
  \/ \E c \in chains : \E msg \in RejectMessages(c.pc) : StepRejects(c, msg)
  \/ \E c \in chains : MintSucceeds(c)
  \/ \E c \in chains : MintFails(c)
  \/ HandleCloseModal
  \/ \E n \in ChainIds : WalletChainChanged(n)

SpecMint == InitMint /\ [][NextMint]_vars

\* Every awaited call of a chain settles in the end: the promise resolves or
\* rejects and the JavaScript event loop runs the continuation.
SpecMintFair ==
  /\ InitMint /\ [][NextMint]_vars
  /\ WF_vars(\E c \in chains : ChainStep(c))

\* C24: the value of the mint transaction the flow submits is the fee shown
\* on the mint button and the contract's current mutationFee, so that the
\* contract does not revert the mint with IncorrectFee.
C24_ValueIsCurrentFee ==
  [][\A c \in chains :
       WriteContractResolves(c) =>
         LET tx == Transaction(c)
             origin == [originContract |-> tx.args.originContract,
                        originTokenId |-> tx.args.originTokenId]
         IN /\ tx.value = DisplayedFee
            /\ ParseEther(tx.value) = contract.mutationFee
            /\ MintCall(contract, WalletAccount, ParseEther(tx.value), origin,
                        "ipfs://metadata").last # "IncorrectFee"]_vars

\* C27: whenever isMinting is true it is false again later, given that each
\* awaited call of the chain settles.
C27_MintingEnds == isMinting ~> ~isMinting

\* A chain waits for the confirmation of its transaction while the session
\* is locked in Minting.
C27_Witness ==
  /\ isMinting /\ mounted
  /\ \E c \in chains : c.pc = "waitForTransactionReceipt" /\ c.tx # Null

\* ------------------------------------ asset loads of App that overlap
\* The load effect of WarpletMutator (src/src/App.tsx) when its dependencies
\* change while loadWarplet calls of earlier runs are in flight.  Every run
\* of the effect starts its own loadWarplet call with the FID and the address
\* of its render; checkWarpletOwnership and fetchWarpletByTokenId catch
\* their errors, so a lookup settles with true or false, a Warplet or null.
MaxLoads == 2       \* loadWarplet calls started in one behaviour

Wallets == {"0xAlice", "0xBob"}

\* A loadWarplet call that has passed its guard and awaits the owner lookup.
NewLoad(a) ==
  [id |-> a.nextLoad, fid |-> a.fid[1], address |-> a.address[1],
   pc |-> "checkWarpletOwnership"]

\* loadWarplet up to its first await, with the inputs of the current render.
RunLoadEffect(a) ==
  IF a.fid = Null \/ a.address = Null THEN a
  ELSE [a EXCEPT !.isLoading = TRUE, !.error = Null,
                 !.loads = @ \cup {NewLoad(a)},
                 !.nextLoad = @ + 1]

\* App after it mounted and its load effect ran for the first time.
AppLoading(fid, address) ==
  RunLoadEffect([fid |-> fid, address |-> address,
                 isLoading |-> FALSE, error |-> Null, warpletData |-> Null,
                 loads |-> {}, nextLoad |-> 1])

InitReload ==
  /\ NoMutationComponent
  /\ NotFollowed(genCall) /\ NotFollowed(pinataJwt)
  /\ NotFollowed(upload) /\ NotFollowed(contract) /\ NotFollowed(mutationFee)
  /\ NotFollowed(admin) /\ NotFollowed(gemini)
  /\ \E fid \in {Null} \cup {Some(f) : f \in Fids} :
       \E address \in {Null} \cup {Some(w) : w \in Wallets} :
         app = AppLoading(fid, address)

\* The FID or the connected address changes: the effect runs again.
PairChanges(fid, address) ==
  /\ <<fid, address>> # <<app.fid, app.address>>
  /\ app.nextLoad <= MaxLoads
  /\ app' = RunLoadEffect([app EXCEPT !.fid = fid, !.address = address])
  /\ UNCHANGED mutationVars
  /\ UNCHANGED exceptApp

\* checkWarpletOwnership of call l returns.
OwnershipReturns(l, ownsWarplet) ==
  /\ l \in app.loads /\ l.pc = "checkWarpletOwnership"
  /\ IF ~ownsWarplet
       THEN app' = [app EXCEPT !.loads = @ \ {l},
                               !.error = Some(ErrNoWarplet(l.fid)),
                               !.isLoading = FALSE]
       ELSE app' = [app EXCEPT !.loads = (@ \ {l}) \cup
                                 {[l EXCEPT !.pc = "fetchWarpletByTokenId"]}]
  /\ UNCHANGED mutationVars
  /\ UNCHANGED exceptApp

\* fetchWarpletByTokenId of call l returns a Warplet or null.
MetadataReturns(l, found) ==
  /\ l \in app.loads /\ l.pc = "fetchWarpletByTokenId"
  /\ IF ~found
       THEN app' = [app EXCEPT !.loads = @ \ {l},
                               !.error = Some(ErrCouldNotLoad(l.fid)),
                               !.isLoading = FALSE]
       ELSE app' = [app EXCEPT !.loads = @ \ {l},
                               !.warpletData =
                                 Some([tokenId |-> l.fid,
                                       contractAddress |-> WarpletContract]),
                               !.isLoading = FALSE]
  /\ UNCHANGED mutationVars
  /\ UNCHANGED exceptApp

NextReload ==
  \/ \E fid \in {Null} \cup {Some(f) : f \in Fids} :
       \E address \in {Null} \cup {Some(w) : w \in Wallets} :
         PairChanges(fid, address)
  \/ \E l \in app.loads : \E ownsWarplet \in BOOLEAN :
       OwnershipReturns(l, ownsWarplet)
  \/ \E l \in app.loads : \E found \in BOOLEAN : MetadataReturns(l, found)

SpecReload == InitReload /\ [][NextReload]_vars

\* Call l was started for the FID and address App has now.
IsCurrent(l, a) == a.fid = Some(l.fid) /\ a.address = Some(l.address)

\* C26: a loadWarplet call that returns after the (address, FID) pair has
\* changed writes neither the asset, the error nor the loading flag, and the
\* loading flag is true whenever a call for the current pair is in flight.
C26_LateLoadNeverOverwrites ==
  [][/\ \A l \in app.loads :
          (/\ ~IsCurrent(l, app)
           /\ \E b \in BOOLEAN : OwnershipReturns(l, b) \/ MetadataReturns(l, b))
          => /\ app'.warpletData = app.warpletData
             /\ app'.error = app.error
             /\ app'.isLoading = app.isLoading
     /\ (\E l \in app'.loads : IsCurrent(l, app')) => app'.isLoading]_vars

\* ------------------------------------------------------- the admin panel
\* AdminPanel (src/src/components/AdminPanel.tsx) is always mounted by App.
\* Its effect depends on [isConnected, address]: the cleanup clears the
\* mounted flag of the run before, init sets loading and awaits
\* Promise.all([getContractOwner(), getContractBalance()]).  Lookups in
\* flight are told apart by the address of their run and their flag.
AdminWallets == {<<"a", "b">>, <<"A", "b">>, <<"b", "a">>}
\* What getContractOwner returns: the owner() of the contract, checksummed.
OwnerOnChain == <<"A", "B">>
ErrAdminData == "Failed to load admin data."

\* The wallet as useAccount reports it: disconnected, or connected with an
\* address.
WalletStates ==
  {[isConnected |-> FALSE, address |-> Null]} \cup
  {[isConnected |-> TRUE, address |-> Some(w)] : w \in AdminWallets}

\* The cleanup of the effect: mounted = false in the closure of every run
\* before this one.
AdminCleanup(lookups) == {[l EXCEPT !.mounted = FALSE] : l \in lookups}

\* The effect: cleanup of the run before, then init up to its await.
RunAdminEffect(p, wallet) ==
  LET q == [p EXCEPT !.isConnected = wallet.isConnected,
                     !.address = wallet.address,
                     !.lookups = AdminCleanup(@)]
  IN IF ~wallet.isConnected \/ wallet.address = Null THEN q
     ELSE [q EXCEPT !.loading = TRUE, !.error = Null,
                    !.lookups = @ \cup {[address |-> wallet.address[1],
                                         mounted |-> TRUE]}]

\* isOwner is null until a lookup has answered.
AdminPanelMounted(wallet) ==
  RunAdminEffect([isConnected |-> FALSE, address |-> Null,
                  isOwner |-> Null, ownerAddress |-> Null,
                  loading |-> FALSE, error |-> Null, lookups |-> {}],
                 wallet)

\* if (!isConnected || isOwner === false) return null; the skeleton while
\* isOwner === null; else the panel with the Withdraw button.
Rendered(p) ==
  IF ~p.isConnected \/ p.isOwner = Some(FALSE) THEN "nothing"
  ELSE IF p.isOwner = Null THEN "skeleton"
  ELSE "panel"

InitAdmin ==
  /\ NoMutationComponent
  /\ NotFollowed(app) /\ NotFollowed(genCall) /\ NotFollowed(pinataJwt)
  /\ NotFollowed(upload) /\ NotFollowed(contract) /\ NotFollowed(mutationFee)
  /\ NotFollowed(gemini)
  /\ \E wallet \in WalletStates : admin = AdminPanelMounted(wallet)

exceptAdmin == <<app, genCall, pinataJwt, upload, contract, mutationFee, gemini>>

\* The wallet connects, disconnects or changes its address.
AccountChanges(wallet) ==
  /\ <<wallet.isConnected, wallet.address>> #
       <<admin.isConnected, admin.address>>
  /\ admin' = RunAdminEffect(admin, wallet)
  /\ UNCHANGED mutationVars
  /\ UNCHANGED exceptAdmin

\* Both lookups of run l resolved.
AdminLookupResolves(l, owner) ==
  /\ l \in admin.lookups
  /\ IF ~l.mounted
       THEN admin' = [admin EXCEPT !.lookups = @ \ {l}]
       ELSE admin' = [admin EXCEPT
                        !.lookups = @ \ {l},
                        !.ownerAddress = Some(owner),
                        !.isOwner = Some(ToLowerCase(owner) =
                                         ToLowerCase(l.address)),
                        !.loading = FALSE]
  /\ UNCHANGED mutationVars
  /\ UNCHANGED exceptAdmin

\* One of the lookups of run l rejected.
AdminLookupRejects(l) ==
  /\ l \in admin.lookups
  /\ IF ~l.mounted
       THEN admin' = [admin EXCEPT !.lookups = @ \ {l}]
       ELSE admin' = [admin EXCEPT !.lookups = @ \ {l},
                                   !.error = Some(ErrAdminData),
                                   !.loading = FALSE]
  /\ UNCHANGED mutationVars
  /\ UNCHANGED exceptAdmin

NextAdmin ==
  \/ \E wallet \in WalletStates : AccountChanges(wallet)
  \/ \E l \in admin.lookups : AdminLookupResolves(l, OwnerOnChain)
  \/ \E l \in admin.lookups : AdminLookupRejects(l)

SpecAdmin == InitAdmin /\ [][NextAdmin]_vars

\* C29: the panel with the Withdraw action is rendered only while a wallet
\* is connected whose address equals the contract owner, ignoring case.
C29_PanelOnlyForOwner ==
  Rendered(admin) = "panel" =>
    /\ admin.isConnected /\ admin.address # Null
    /\ SameIgnoringCase(admin.address[1], OwnerOnChain)

\* ------------------------------------------------ GeminiMutationService
\* One instance of GeminiMutationService (src/src/services/mintService.ts)
\* and the calls made on it, one at a time: the call up to its awaited
\* model.generateContent, then the answer or the rejection of the API.
MutationTypes ==
  {[id |-> "cyberpunk", name |-> "Cyberpunk Evolution", rarity |-> "common"],
   [id |-> "zombie", name |-> "Undead Mutation", rarity |-> "common"],
   [id |-> "dragon", name |-> "Dragon Metamorphosis", rarity |-> "rare"],
   [id |-> "void_walker", name |-> "Void Walker", rarity |-> "legendary"],
   [id |-> "custom", name |-> "Custom", rarity |-> "common"]}
LoreTemplateIds ==
  {"cyberpunk", "zombie", "cosmic_horror", "dragon", "crystal_entity",
   "void_walker"}

\* nftMetadata.name || "Unknown NFT"
NftNames == {Null, Some("Warplet #1")}
NftName(name) == IF name = Null THEN "Unknown NFT" ELSE name[1]

\* The texts the API answers with: one that holds a JSON object, one that
\* holds braces around no JSON, one without braces.
ApiTexts == {"json", "bracesNoJson", "prose"}
\* The messages the API rejects with; NoMessage is an error without one.
NoMessage == "undefined"
ApiErrors ==
  {"You exceeded your current quota", "[429 Too Many Requests]",
   "fetch failed", NoMessage}

\* error?.message?.includes("quota") || error?.message?.includes("429")
IsQuotaError(message) ==
  message \in {"You exceeded your current quota", "[429 Too Many Requests]"}

GenerateFallbackMutation(name, mutationType) ==
  [source |-> "fallback", kind |-> "mutation",
   traits |-> [mutation_type |-> mutationType.name,
               power_level |-> IF mutationType.rarity = "legendary"
                                 THEN "Supreme"
                               ELSE IF mutationType.rarity = "rare"
                                 THEN "High" ELSE "Enhanced",
               origin_trace |-> NftName(name),
               rarity |-> mutationType.rarity]]

GenerateFallbackLore(name, mutationType) ==
  [source |-> "fallback", kind |-> "lore",
   traits |-> [template |-> IF mutationType.id \in LoreTemplateIds
                              THEN mutationType.id ELSE "generic",
               name |-> NftName(name)]]

ApiData(kind) == [source |-> "api", kind |-> kind, traits |-> <<>>]

\* The instance after its constructor.
NewService ==
  [fallbackMode |-> FALSE, pc |-> "idle", name |-> Null,
   mutationType |-> Null, fallbackAtCall |-> FALSE, apiCalled |-> FALSE,
   returned |-> Null]

exceptGemini == <<app, genCall, pinataJwt, upload, contract, mutationFee, admin>>

InitGemini ==
  /\ NoMutationComponent
  /\ NotFollowed(app) /\ NotFollowed(genCall) /\ NotFollowed(pinataJwt)
  /\ NotFollowed(upload) /\ NotFollowed(contract) /\ NotFollowed(mutationFee)
  /\ NotFollowed(admin)
  /\ gemini = NewService

\* generateMutationInstructions up to await this.model.generateContent.
GenerateMutationInstructions(name, mutationType) ==
  /\ gemini.pc = "idle"
  /\ gemini' = [gemini EXCEPT !.pc = "generateMutationInstructions",
                              !.name = name,
                              !.mutationType = Some(mutationType),
                              !.fallbackAtCall = gemini.fallbackMode,
                              !.apiCalled = TRUE,
                              !.returned = Null]
  /\ UNCHANGED mutationVars
  /\ UNCHANGED exceptGemini

\* generateMutationLore up to await this.model.generateContent, or to its
\* return in fallback mode.
GenerateMutationLore(name, mutationType) ==
  /\ gemini.pc = "idle"
  /\ LET g == [gemini EXCEPT !.name = name,
                             !.mutationType = Some(mutationType),
                             !.fallbackAtCall = gemini.fallbackMode]
     IN IF gemini.fallbackMode
          THEN gemini' = [g EXCEPT !.apiCalled = FALSE,
                                   !.returned =
                                     Some(GenerateFallbackLore(name,
                                                               mutationType))]
          ELSE gemini' = [g EXCEPT !.pc = "generateMutationLore",
                                   !.apiCalled = TRUE,
                                   !.returned = Null]
  /\ UNCHANGED mutationVars
  /\ UNCHANGED exceptGemini

\* The catch block of the call in flight.
Caught(g, message) ==
  [g EXCEPT !.pc = "idle",
            !.fallbackMode = @ \/ IsQuotaError(message),
            !.returned =
              Some(IF g.pc = "generateMutationInstructions"
                     THEN GenerateFallbackMutation(g.name, g.mutationType[1])
                     ELSE GenerateFallbackLore(g.name, g.mutationType[1]))]

\* generateContent resolves with a text.
ApiAnswers(text) ==
  /\ gemini.pc # "idle"
  /\ gemini' =
       IF gemini.pc = "generateMutationLore"
         THEN [gemini EXCEPT !.pc = "idle", !.returned = Some(ApiData("lore"))]
       ELSE IF text = "json"
         THEN [gemini EXCEPT !.pc = "idle",
                             !.returned = Some(ApiData("mutation"))]
       ELSE IF text = "bracesNoJson"
         THEN Caught(gemini, "SyntaxError: Unexpected token")
       ELSE Caught(gemini, "Failed to parse Gemini response")
  /\ UNCHANGED mutationVars
  /\ UNCHANGED exceptGemini

\* generateContent rejects.
ApiRejects(message) ==
  /\ gemini.pc # "idle"
  /\ gemini' = Caught(gemini, message)
  /\ UNCHANGED mutationVars
  /\ UNCHANGED exceptGemini

NextGemini ==
  \/ \E name \in NftNames, mutationType \in MutationTypes :
       GenerateMutationInstructions(name, mutationType)
  \/ \E name \in NftNames, mutationType \in MutationTypes :
       GenerateMutationLore(name, mutationType)
  \/ \E text \in ApiTexts : ApiAnswers(text)
  \/ \E message \in ApiErrors : ApiRejects(message)

SpecGemini == InitGemini /\ [][NextGemini]_vars

\* C30: a call that ends after an API error returns fallback data; an error
\* whose message contains "quota" or "429" sets fallback mode, which is never
\* left; a call made in fallback mode makes no API call and returns fallback
\* data.
C30_FallbackModeSkipsApi ==
  [][/\ \A message \in ApiErrors :
          ApiRejects(message) =>
            /\ gemini'.returned # Null
            /\ gemini'.returned[1].source = "fallback"
            /\ (message \in {"You exceeded your current quota",
                             "[429 Too Many Requests]"})
                 => gemini'.fallbackMode
     /\ gemini.fallbackMode => gemini'.fallbackMode
     /\ (gemini.fallbackMode /\ gemini.pc = "idle" /\ gemini' # gemini) =>
          /\ ~gemini'.apiCalled
          /\ gemini'.pc = "idle"
          /\ gemini'.returned # Null
          /\ gemini'.returned[1].source = "fallback"]_vars

====
